---- MODULE Spec2Model ----
(***************************************************************************)
(* WorkTrack: the employee, company, DTR, DTR format and payroll handlers  *)
(* of server/routes.ts over the document store that server/storage.ts     *)
(* exports, MongoDBStorage: its collections are those of the Mongoose      *)
(* models of server/models, its calls complete in a later turn of the      *)
(* event loop, and its collections hold at start what the database holds.  *)
(*                                                                         *)
(* Conventions.                                                            *)
(*  - A stored document is a record; a field the document does not have    *)
(*    (JavaScript undefined) is a field absent from the record.  The spread*)
(*    {...a, ...b} is Merge(a, b).  Documents returned by the store carry  *)
(*    the key "id" and never "_id" (convertToType).                        *)
(*  - A Mongoose schema is the record of its paths, of the paths it        *)
(*    requires, of its defaults and of the enum of its status.  save()     *)
(*    rejects a document that lacks a required path or whose status is     *)
(*    outside the enum, and a document holds the paths of its schema only; *)
(*    findByIdAndUpdate sets the paths it is given and validates nothing.  *)
(*    The store has no method for DTR formats: each throws.                *)
(*  - A date string "2023-MM-dd" is the integer MM*100+dd; NoDate is the   *)
(*    undefined date.  new Date(s) reads it as UTC midnight, and a day up  *)
(*    to 31 that the month lacks runs over into the next month.            *)
(*    getTime() is ToTime(s), in days; getMonth() is taken in the time     *)
(*    zone of the server, `zone`.                                          *)
(*  - A time string "HH:mm" is the integer HH*100+mm.                      *)
(*  - A JavaScript number is an exact rational [n, d] in lowest terms.     *)
(*  - A handler runs one await at a time.  `inflight` holds, for each      *)
(*    request being served, the await it stands at (pc, named after the    *)
(*    call awaited) and its local variables.  A request arrives in one     *)
(*    step; every later step is one awaited call together with the         *)
(*    synchronous code that follows it, up to the next await or the        *)
(*    response.  Steps of different requests interleave.                   *)
(*  - `rejects` says that the call awaited in a step rejects.              *)
(*  - A logActivity(...) the handler does not await leaves its            *)
(*    createActivity under way when the response is sent; `detached`       *)
(*    counts these calls, and each completes in a step of its own.         *)
(*  - `resp` is the response sent in the last step, NoResponse when that   *)
(*    step sent none.                                                      *)
(*  - A text that handlers concatenate (remarks) is the sequence of its    *)
(*    pieces; the empty sequence is the empty string.                      *)
(***************************************************************************)
EXTENDS Integers, Sequences, FiniteSets, TLC

VARIABLES employees, companies, dtrs, payrolls, activities, detached, resp,
          inflight, zone

vars ==
  <<employees, companies, dtrs, payrolls, activities, detached, resp,
    inflight, zone>>

----------------------------------------------------------------------------
(* Bounds of the model *)

MaxEmployees == 3
MaxDtrs == 2
MaxPayrolls == 2
MaxActivities == 2
MaxBulk == 2
MaxRemarks == 2
MaxCompanies == 1
MaxDetached == 1

----------------------------------------------------------------------------
(* JavaScript values *)

\* {...a, ...b}
Merge(a, b) ==
  [f \in (DOMAIN a) \cup (DOMAIN b) |-> IF f \in DOMAIN b THEN b[f] ELSE a[f]]

Has(r, f) == f \in DOMAIN r

RECURSIVE GCD(_, _)
GCD(a, b) == IF b = 0 THEN a ELSE GCD(b, a % b)

Abs(x) == IF x < 0 THEN -x ELSE x

\* the number n/d, d > 0, in lowest terms
Rat(n, d) ==
  LET g == GCD(Abs(n), d) IN [n |-> n \div g, d |-> d \div g]

RInt(k) == [n |-> k, d |-> 1]
RZero == RInt(0)
RAdd(a, b) ==
  LET l == (a.d * b.d) \div GCD(a.d, b.d)
  IN  Rat(a.n * (l \div a.d) + b.n * (l \div b.d), l)
RNeg(a) == [n |-> -a.n, d |-> a.d]
RSub(a, b) == RAdd(a, RNeg(b))
RMul(a, b) ==
  LET g1 == GCD(Abs(a.n), b.d)
      g2 == GCD(Abs(b.n), a.d)
  IN  Rat((a.n \div g1) * (b.n \div g2), (a.d \div g2) * (b.d \div g1))
\* a / k for an integer k > 0
RDivInt(a, k) == RMul(a, [n |-> 1, d |-> k])
RLeq(a, b) == a.n * b.d <= b.n * a.d
RMax(a, b) == IF RLeq(a, b) THEN b ELSE a

----------------------------------------------------------------------------
(* Dates: new Date("2023-MM-dd") and the arithmetic done on it *)

NoDate == 0
NaN == -1

\* the MM and the dd of the string
MonthField(s) == s \div 100
DayField(s) == s % 100

\* the length of month m of a year that is not a leap year (2022, 2023)
DaysInMonthOf(m) ==
  IF m = 2 THEN 28
  ELSE IF m \in {4, 6, 9, 11} THEN 30
  ELSE 31

\* new Date(s) is not an Invalid Date: the parser takes a month 01..12 and a
\* day 01..31, whatever the month
ValidDate(s) ==
  /\ s # NoDate
  /\ MonthField(s) \in 1..12
  /\ DayField(s) \in 1..31

RECURSIVE DaysBeforeMonth(_)
DaysBeforeMonth(m) ==
  IF m <= 1 THEN 0 ELSE DaysBeforeMonth(m - 1) + DaysInMonthOf(m - 1)

\* new Date(s).getTime() / 86400000, counted from 2023-01-01; NaN if invalid.
\* "2023-02-30" is the day after "2023-03-01"
ToTime(s) ==
  IF ValidDate(s) THEN DaysBeforeMonth(MonthField(s)) + DayField(s) - 1
  ELSE NaN

\* new Date(a) >= new Date(b), false when either side is an Invalid Date
DateGeq(a, b) == ToTime(a) # NaN /\ ToTime(b) # NaN /\ ToTime(a) >= ToTime(b)
DateLeq(a, b) == ToTime(a) # NaN /\ ToTime(b) # NaN /\ ToTime(a) <= ToTime(b)

\* process.env.TZ: a server on UTC and one west of it
Zones == {"UTC", "America/Los_Angeles"}

\* UTC midnight is the evening before in a zone west of UTC
LocalDay(s, z) == IF z = "UTC" THEN ToTime(s) ELSE ToTime(s) - 1

\* the month (1..12) that holds day t, counted from 2023-01-01; a day before
\* it is in December 2022
RECURSIVE MonthOfDay(_, _)
MonthOfDay(t, m) ==
  IF t < 0 THEN 12
  ELSE IF m = 12 \/ t < DaysBeforeMonth(m + 1) THEN m
  ELSE MonthOfDay(t, m + 1)

\* new Date(s).getMonth(), 0 for January, in zone z
getMonth(s, z) == MonthOfDay(LocalDay(s, z), 1) - 1

\* new Date(d.getFullYear(), d.getMonth() + 1, 0).getDate() for d = new Date(s)
daysInMonth(s, z) == DaysInMonthOf(getMonth(s, z) + 1)

\* format(new Date(), "yyyy-MM-dd"): the day the requests are served
Today == 701

----------------------------------------------------------------------------
(* Time strings and worked hours *)

MinutesOf(t) == (t \div 100) * 60 + (t % 100)

\* the number a document or body does not have (undefined)
UndefinedNumber == [n |-> 0, d |-> 0]

\* body.f for a numeric field f
NumberField(body, f) == IF Has(body, f) THEN body[f] ELSE UndefinedNumber

\* calculateRegularHours(timeIn, timeOut, breakHours), in hours; breakHours
\* is 1 when the caller passes undefined
calculateRegularHours(timeIn, timeOut, breakHours) ==
  LET break == IF breakHours = UndefinedNumber THEN RInt(1) ELSE breakHours
  IN  RMax(RZero,
           RSub(Rat(MinutesOf(timeOut) - MinutesOf(timeIn), 60), break))

----------------------------------------------------------------------------
(* The document store (MongoDBStorage over the Mongoose models) *)

NoId == 0

\* doc._id of a document returned by the store
UnderscoreId(doc) == IF Has(doc, "_id") THEN doc._id ELSE NoId

\* doc._id || doc.id
IdOf(doc) == IF UnderscoreId(doc) # NoId THEN UnderscoreId(doc) ELSE doc.id

\* the fields fs of a body, those it has
Only(body, fs) == [f \in (DOMAIN body) \cap fs |-> body[f]]

\* employeeSchema of models/Employee.ts (createdAt and updatedAt, which no
\* handler reads, are left out); email has a unique index
employeeSchema ==
  [paths |-> {"firstName", "lastName", "email", "phone", "position",
              "department", "employeeType", "dateHired", "status", "salary",
              "companyId"},
   required |-> {"firstName", "lastName", "email", "phone", "position",
                 "department", "employeeType", "dateHired", "salary"},
   defaults |-> [status |-> "Active"],
   statuses |-> {"Active", "Inactive"},
   texts |-> {"firstName", "lastName", "email", "phone", "position",
              "department", "employeeType"},
   unique |-> {"email"}]

\* companySchema of the models
companySchema ==
  [paths |-> {"name", "address", "contactPerson", "contactEmail",
              "contactPhone", "status"},
   required |-> {"name", "address", "contactPerson", "contactEmail",
                 "contactPhone"},
   defaults |-> [status |-> "Active"],
   statuses |-> {"Active", "Inactive"},
   texts |-> {"name", "address", "contactPerson", "contactEmail",
              "contactPhone"},
   unique |-> {}]

\* dtrSchema of models/DTR.ts
dtrSchema ==
  [paths |-> {"employeeId", "date", "type", "status", "timeIn", "timeOut",
              "breakHours", "regularHours", "overtimeHours", "remarks",
              "submissionDate", "approvedBy", "approvalDate"},
   required |-> {"employeeId", "date", "type", "status", "timeIn", "timeOut",
                 "submissionDate"},
   defaults |-> [breakHours |-> RZero, regularHours |-> RZero,
                 overtimeHours |-> RZero],
   statuses |-> {"Present", "Absent", "Late", "On Leave", "Pending",
                 "Approved", "Rejected", "Processing"},
   texts |-> {"type", "status"},
   unique |-> {}]

\* payrollSchema of models/Payroll.ts
payrollSchema ==
  [paths |-> {"employeeId", "periodStart", "periodEnd", "basicPay",
              "overtimePay", "deductions", "netPay", "status", "paymentDate"},
   required |-> {"employeeId", "periodStart", "periodEnd", "basicPay",
                 "netPay"},
   defaults |-> [overtimePay |-> RZero, deductions |-> <<>>,
                 status |-> "Pending"],
   statuses |-> {"Pending", "Processed", "Paid"},
   texts |-> {},
   unique |-> {}]

\* a schema that requires no path
Validates_NothingRequired(schema, data) ==
  /\ Has(data, "status") => data.status \in schema.statuses
  /\ Has(data, "deductions") =>
        \A i \in 1..Len(data.deductions) :
          {"type", "amount"} \subseteq DOMAIN data.deductions[i]

\* the validation of save(): every required path is there, a required
\* String path does not hold the empty string, the status is one of the
\* enum, and each deduction has its type, not empty, and its amount
Validates(schema, data) ==
  /\ schema.required \subseteq DOMAIN data
  /\ \A f \in schema.required \cap schema.texts : data[f] # ""
  /\ Has(data, "status") => data.status \in schema.statuses
  /\ Has(data, "deductions") =>
        \A i \in 1..Len(data.deductions) :
          /\ {"type", "amount"} \subseteq DOMAIN data.deductions[i]
          /\ data.deductions[i].type # ""

\* the unique index of a schema refuses data: a document of coll other than
\* the one under id self holds the value data gives a unique path
Duplicates(coll, schema, self, data) ==
  \E i \in 1..Len(coll), f \in schema.unique :
    /\ i # self
    /\ Has(data, f) /\ Has(coll[i], f)
    /\ coll[i][f] = data[f]

\* new Model(data): the paths of the schema that data has, over the defaults
Document(schema, data) == Merge(schema.defaults, Only(data, schema.paths))

\* getDTR / getPayroll / getEmployee / getCompany: findById finds a
\* document, or null
Exists(coll, id) == id \in 1..Len(coll)

\* createDTR / createPayroll / createEmployee / createCompany:
\* new Model(data).save(), of a document that validates
Create(coll, schema, data) ==
  Append(coll, Merge(Document(schema, data), [id |-> Len(coll) + 1]))

\* updateDTR / updatePayroll / updateEmployee / updateCompany:
\* findByIdAndUpdate(id, data, { new: true }); no document, no change
Update(coll, schema, id, data) ==
  IF Exists(coll, id)
  THEN [coll EXCEPT ![id] = Merge(@, Only(data, schema.paths))]
  ELSE coll

----------------------------------------------------------------------------
(* Requests *)

Anonymous == "anonymous"
Users == {Anonymous, "admin"}

\* (req.user as any)?._id is defined
LoggedIn(user) == user # Anonymous

\* logActivity(userId, ...): the number of createActivity calls it makes
logActivity(user) == IF LoggedIn(user) THEN 1 ELSE 0

\* logActivity rejects: createActivity is reached and rejects
LogThrows(user, rejects) == LoggedIn(user) /\ rejects

\* the requests that may be served at the same time
Requests == {"a", "b"}

\* a request slot that serves nothing
Idle == [pc |-> "idle"]

\* no request is being served
NoRequests == [r \in Requests |-> Idle]

Reply(op, id, code) == [op |-> op, id |-> id, code |-> code]

\* the step sent no response
NoResponse == Reply("none", NoId, 0)

\* a text is the sequence of its pieces; the empty text is falsy
Text(doc, f) == IF Has(doc, f) THEN doc[f] ELSE <<>>

\* the remarks of every DTR hold at most MaxRemarks notes
RemarksFit(ds) ==
  \A i \in 1..Len(ds) : Len(Text(ds[i], "remarks")) <= 2 * MaxRemarks - 1

\* what a step of a request leaves behind: the collections, the request and
\* the response
Out(e, d, p, a, q, r) ==
  [employees |-> e, dtrs |-> d, payrolls |-> p, activities |-> a,
   companies |-> companies, detached |-> detached,
   request |-> q, resp |-> r]

\* the handler goes on to its next await as q; the store is as it was
Goes(q) == Out(employees, dtrs, payrolls, activities, q, NoResponse)

\* res.status(code).json(...): the handler returns
Ends(response) == Out(employees, dtrs, payrolls, activities, Idle, response)

\* the step of request r is taken: its outcome becomes the state
Take(r, o) ==
  /\ Len(o.employees) <= MaxEmployees
  /\ Len(o.dtrs) <= MaxDtrs
  /\ Len(o.payrolls) <= MaxPayrolls
  /\ o.activities <= MaxActivities
  /\ RemarksFit(o.dtrs)
  /\ Len(o.companies) <= MaxCompanies
  /\ o.detached <= MaxDetached
  /\ companies' = o.companies
  /\ detached' = o.detached
  /\ employees' = o.employees
  /\ dtrs' = o.dtrs
  /\ payrolls' = o.payrolls
  /\ activities' = o.activities
  /\ inflight' = [inflight EXCEPT ![r] = o.request]
  /\ resp' = o.resp
  /\ UNCHANGED zone

\* a request arrives in slot r
Arrive(r, o) == inflight[r].pc = "idle" /\ Take(r, o)

\* request r stands at an await of the handler op
Serving(r, op) == inflight[r].pc # "idle" /\ inflight[r].op = op

\* the call awaited at pc: logActivity awaits createActivity; the logActivity
\* after the loop of a bulk handler goes by the name of its await, logSummary
CallAt(pc) == IF pc = "logActivity" THEN "createActivity" ELSE pc

\* whether the call request r awaits may reject, calls being those that can
Rejections(r, calls) ==
  IF inflight[r].pc # "idle" /\ CallAt(inflight[r].pc) \in calls
  THEN BOOLEAN ELSE {FALSE}

\* await logActivity(...) and the response with status ok
LogAndReply(q, rejects, ok) ==
  IF LogThrows(q.user, rejects) THEN Ends(Reply(q.op, q.id, 500))
  ELSE [Ends(Reply(q.op, q.id, ok))
          EXCEPT !.activities = activities + logActivity(q.user)]

\* res.json(...) and then logActivity(...).catch(...): the handler returns
\* with the createActivity of a logged-in user under way
LogDetached(q, response) ==
  [Ends(response) EXCEPT !.detached = detached + logActivity(q.user)]

\* the createActivity of a logActivity nobody awaits completes: the activity
\* is stored, or the call rejects and the rejection is only printed
CreateActivityDetached(rejects) ==
  /\ detached > 0
  /\ detached' = detached - 1
  /\ activities' = IF rejects THEN activities ELSE activities + 1
  /\ activities' <= MaxActivities
  /\ resp' = NoResponse
  /\ UNCHANGED <<employees, companies, dtrs, payrolls, inflight, zone>>

\* const employee = await storage.getEmployee(...), read for the name in the
\* activity, then await logActivity(...) and the response with status ok
NameAndLog(q, rejects, ok) ==
  CASE q.pc = "getEmployee" ->
         IF rejects THEN Ends(Reply(q.op, q.id, 500))
         ELSE Goes([q EXCEPT !.pc = "logActivity"])
    [] q.pc = "logActivity" ->
         IF LogThrows(q.user, rejects) THEN Ends(Reply(q.op, q.id, 500))
         ELSE [Ends(Reply(q.op, q.id, ok))
                 EXCEPT !.activities = activities + logActivity(q.user)]

----------------------------------------------------------------------------
(* POST /api/employees, PATCH /api/employees/:id, /activate, /deactivate *)

\* the texts that have the form of an e-mail address, among those a request
\* of the model carries
EmailTexts ==
  {"ana@acme.test", "lea@acme.test", "ben@acme.test", "new@acme.test",
   "cy@acme.test"}

\* z.string().email() takes the text
IsEmail(text) == text \in EmailTexts

\* insertEmployeeSchema.parse(req.body) does not throw
insertEmployeeSchema(body) ==
  /\ {"firstName", "lastName", "email", "phone", "position", "department",
      "employeeType", "dateHired", "status", "salary", "companyId"}
       \subseteq DOMAIN body
  /\ IsEmail(body.email)
  /\ body.employeeType \in {"Regular", "Contract", "Project-based"}
  /\ body.status \in {"Active", "Inactive"}

PostEmployeesArrival(body) ==
  IF ~insertEmployeeSchema(body)
  THEN Ends(Reply("postEmployee", NoId, 400))
  ELSE Goes([op |-> "postEmployee", pc |-> "createEmployee", body |-> body])

\* createEmployee, bcrypt.hash and createUser, each awaited
PostEmployeesStep(q, rejects) ==
  CASE q.pc = "createEmployee" ->
         IF \/ rejects
            \/ ~Validates(employeeSchema, q.body)
            \/ Duplicates(employees, employeeSchema, NoId, q.body)
         THEN Ends(Reply("postEmployee", NoId, 500))
         ELSE [Goes([op |-> "postEmployee", pc |-> "hash",
                     id |-> Len(employees) + 1])
                 EXCEPT !.employees = Create(employees, employeeSchema, q.body)]
    [] q.pc = "hash" ->
         IF rejects THEN Ends(Reply("postEmployee", q.id, 500))
         ELSE Goes([q EXCEPT !.pc = "createUser"])
    [] q.pc = "createUser" ->
         IF rejects THEN Ends(Reply("postEmployee", q.id, 500))
         ELSE Ends(Reply("postEmployee", q.id, 201))

PostEmployees(r, body) == Arrive(r, PostEmployeesArrival(body))

PostEmployeesResume(r, rejects) ==
  /\ Serving(r, "postEmployee")
  /\ Take(r, PostEmployeesStep(inflight[r], rejects))

PatchEmployeeArrival(id, body, user) ==
  Goes([op |-> "patchEmployee", pc |-> "updateEmployee", id |-> id,
        body |-> body, user |-> user])

\* updateEmployee, awaited; then res.json and the logActivity nobody awaits
PatchEmployeeStep(q, rejects) ==
  IF rejects THEN Ends(Reply(q.op, q.id, 500))
  ELSE IF ~Exists(employees, q.id) THEN Ends(Reply(q.op, q.id, 404))
  ELSE IF Duplicates(employees, employeeSchema, q.id, q.body)
  THEN Ends(Reply(q.op, q.id, 500))
  ELSE [LogDetached(q, Reply(q.op, q.id, 200))
          EXCEPT !.employees = Update(employees, employeeSchema, q.id, q.body)]

PatchEmployee(r, id, body, user) ==
  Arrive(r, PatchEmployeeArrival(id, body, user))

PatchEmployeeResume(r, rejects) ==
  /\ Serving(r, "patchEmployee")
  /\ Take(r, PatchEmployeeStep(inflight[r], rejects))

\* the status the handler writes
EmployeeStatus(op) == IF op = "activate" THEN "Active" ELSE "Inactive"

\* /activate and /deactivate differ in the status they write
EmployeeStatusArrival(op, id, user) ==
  Goes([op |-> op, pc |-> "getEmployee", id |-> id, user |-> user])

EmployeeStatusStep(q, rejects) ==
  CASE q.pc = "getEmployee" ->
         IF rejects THEN Ends(Reply(q.op, q.id, 500))
         ELSE IF ~Exists(employees, q.id) THEN Ends(Reply(q.op, q.id, 404))
         ELSE Goes([op |-> q.op, pc |-> "updateEmployee", id |-> q.id,
                    user |-> q.user,
                    data |-> Merge(employees[q.id],
                                   [status |-> EmployeeStatus(q.op)])])
    [] q.pc = "updateEmployee" ->
         IF \/ rejects
            \/ Duplicates(employees, employeeSchema, q.id, q.data)
         THEN Ends(Reply(q.op, q.id, 500))
         ELSE [LogDetached(q, Reply(q.op, q.id, 200))
                 EXCEPT !.employees =
                          Update(employees, employeeSchema, q.id, q.data)]

PatchEmployeeActivate(r, id, user) ==
  Arrive(r, EmployeeStatusArrival("activate", id, user))

PatchEmployeeActivateResume(r, rejects) ==
  /\ Serving(r, "activate")
  /\ Take(r, EmployeeStatusStep(inflight[r], rejects))

PatchEmployeeDeactivate(r, id, user) ==
  Arrive(r, EmployeeStatusArrival("deactivate", id, user))

PatchEmployeeDeactivateResume(r, rejects) ==
  /\ Serving(r, "deactivate")
  /\ Take(r, EmployeeStatusStep(inflight[r], rejects))

----------------------------------------------------------------------------
(* POST /api/companies, PATCH /api/companies/:id, /activate, /deactivate *)

\* insertCompanySchema.parse(req.body) does not throw
insertCompanySchema(body) ==
  /\ {"name", "address", "contactPerson", "contactEmail", "contactPhone",
      "status"} \subseteq DOMAIN body
  /\ body.status \in {"Active", "Inactive"}

\* createCompany, awaited; then res.status(201) and the logActivity nobody
\* awaits
PostCompaniesStep(q, rejects) ==
  IF rejects \/ ~Validates(companySchema, q.body)
  THEN Ends(Reply(q.op, NoId, 500))
  ELSE [LogDetached(q, Reply(q.op, Len(companies) + 1, 201))
          EXCEPT !.companies = Create(companies, companySchema, q.body)]

PostCompanies(r, body, user) ==
  Arrive(r, IF ~insertCompanySchema(body)
            THEN Ends(Reply("postCompany", NoId, 400))
            ELSE Goes([op |-> "postCompany", pc |-> "createCompany",
                       body |-> body, user |-> user]))

PostCompaniesResume(r, rejects) ==
  /\ Serving(r, "postCompany")
  /\ Take(r, PostCompaniesStep(inflight[r], rejects))

\* updateCompany, awaited; then res.json and the logActivity nobody awaits
PatchCompanyStep(q, rejects) ==
  IF rejects THEN Ends(Reply(q.op, q.id, 500))
  ELSE IF ~Exists(companies, q.id) THEN Ends(Reply(q.op, q.id, 404))
  ELSE [LogDetached(q, Reply(q.op, q.id, 200))
          EXCEPT !.companies = Update(companies, companySchema, q.id, q.body)]

PatchCompany(r, id, body, user) ==
  Arrive(r, Goes([op |-> "patchCompany", pc |-> "updateCompany",
                  id |-> id, body |-> body, user |-> user]))

PatchCompanyResume(r, rejects) ==
  /\ Serving(r, "patchCompany")
  /\ Take(r, PatchCompanyStep(inflight[r], rejects))

\* the status the handler writes
CompanyStatus(op) == IF op = "activateCompany" THEN "Active" ELSE "Inactive"

\* /activate and /deactivate differ in the status they write
CompanyStatusStep(q, rejects) ==
  CASE q.pc = "getCompany" ->
         IF rejects THEN Ends(Reply(q.op, q.id, 500))
         ELSE IF ~Exists(companies, q.id) THEN Ends(Reply(q.op, q.id, 404))
         ELSE Goes([op |-> q.op, pc |-> "updateCompany", id |-> q.id,
                    user |-> q.user,
                    data |-> Merge(companies[q.id],
                                   [status |-> CompanyStatus(q.op)])])
    [] q.pc = "updateCompany" ->
         IF rejects THEN Ends(Reply(q.op, q.id, 500))
         ELSE [LogDetached(q, Reply(q.op, q.id, 200))
                 EXCEPT !.companies =
                          Update(companies, companySchema, q.id, q.data)]

PatchCompanyActivate(r, id, user) ==
  Arrive(r, Goes([op |-> "activateCompany", pc |-> "getCompany", id |-> id,
                  user |-> user]))

PatchCompanyActivateResume(r, rejects) ==
  /\ Serving(r, "activateCompany")
  /\ Take(r, CompanyStatusStep(inflight[r], rejects))

PatchCompanyDeactivate(r, id, user) ==
  Arrive(r, Goes([op |-> "deactivateCompany", pc |-> "getCompany",
                  id |-> id, user |-> user]))

PatchCompanyDeactivateResume(r, rejects) ==
  /\ Serving(r, "deactivateCompany")
  /\ Take(r, CompanyStatusStep(inflight[r], rejects))

----------------------------------------------------------------------------
(* POST /api/dtrs *)

\* insertDtrSchema.parse(req.body) does not throw; regularHours is not part
\* of the schema and a body that has one passes
insertDtrSchema(body) ==
  /\ {"employeeId", "date", "timeIn", "timeOut", "type", "status",
      "submissionDate"} \subseteq DOMAIN body
  /\ body.type \in {"Daily", "Bi-Weekly", "Project-based"}
  /\ body.status \in {"Pending", "Approved", "Rejected", "Processing"}

\* the spread written last: a regularHours of the body survives
dtrData_BodyLast(body) ==
  Merge([regularHours |->
           calculateRegularHours(body.timeIn, body.timeOut,
                                 NumberField(body, "breakHours")),
         submissionDate |-> Today],
        body)

\* dtrData = { ...req.body, regularHours, submissionDate }
dtrData(body) ==
  Merge(body,
        [regularHours |->
           calculateRegularHours(body.timeIn, body.timeOut,
                                 NumberField(body, "breakHours")),
         submissionDate |-> Today])

PostDtrsArrival(body, user) ==
  IF ~insertDtrSchema(body) THEN Ends(Reply("postDtr", NoId, 400))
  ELSE Goes([op |-> "postDtr", pc |-> "createDTR", body |-> body,
             user |-> user])

PostDtrsStep(q, rejects) ==
  CASE q.pc = "createDTR" ->
         IF rejects \/ ~Validates(dtrSchema, dtrData(q.body))
         THEN Ends(Reply("postDtr", NoId, 500))
         ELSE [Goes([op |-> "postDtr", pc |-> "getEmployee",
                     id |-> Len(dtrs) + 1, user |-> q.user])
                 EXCEPT !.dtrs = Create(dtrs, dtrSchema, dtrData(q.body))]
    [] OTHER -> NameAndLog(q, rejects, 201)

PostDtrs(r, body, user) == Arrive(r, PostDtrsArrival(body, user))

PostDtrsResume(r, rejects) ==
  /\ Serving(r, "postDtr")
  /\ Take(r, PostDtrsStep(inflight[r], rejects))

----------------------------------------------------------------------------
(* PATCH /api/dtrs/:id *)

PatchDtrArrival(id, body, user) ==
  Goes([op |-> "patchDtr", pc |-> "updateDTR", id |-> id, body |-> body,
        user |-> user])

PatchDtrStep(q, rejects) ==
  CASE q.pc = "updateDTR" ->
         IF rejects THEN Ends(Reply("patchDtr", q.id, 500))
         ELSE IF ~Exists(dtrs, q.id) THEN Ends(Reply("patchDtr", q.id, 404))
         ELSE [Goes([op |-> "patchDtr", pc |-> "getEmployee", id |-> q.id,
                     user |-> q.user])
                 EXCEPT !.dtrs = Update(dtrs, dtrSchema, q.id, q.body)]
    [] OTHER -> NameAndLog(q, rejects, 200)

PatchDtr(r, id, body, user) == Arrive(r, PatchDtrArrival(id, body, user))

PatchDtrResume(r, rejects) ==
  /\ Serving(r, "patchDtr")
  /\ Take(r, PatchDtrStep(inflight[r], rejects))

----------------------------------------------------------------------------
(* PATCH /api/dtrs/:id/approve, /reject, /request-revision *)

\* a body without fields
NoBody == <<>>

\* the update that replaces the previous remarks
RevisionChange_Overwrite(dtr, body) ==
  [status |-> "Pending",
   remarks |-> IF Text(body, "remarks") # <<>> THEN body.remarks
               ELSE <<"Needs revision">>]

\* status "Pending", and remarks: dtr.remarks ? `${dtr.remarks} | ${remarks}`
\* : remarks, with remarks = req.body.remarks || "Needs revision"
RevisionChange(dtr, body) ==
  LET remarks == IF Text(body, "remarks") # <<>> THEN body.remarks
                 ELSE <<"Needs revision">>
  IN  [status |-> "Pending",
       remarks |-> IF Text(dtr, "remarks") # <<>>
                   THEN dtr.remarks \o <<" | ">> \o remarks
                   ELSE remarks]

\* the fields a handler writes over the spread of the DTR it has read
TransitionChange(op, dtr, body) ==
  CASE op = "approve" -> [status |-> "Approved", approvalDate |-> Today]
    [] op = "reject" -> [status |-> "Rejected", approvalDate |-> Today]
    [] op = "requestRevision" -> RevisionChange(dtr, body)

\* the three handlers differ in the update they write
TransitionArrival(op, id, body, user) ==
  Goes([op |-> op, pc |-> "getDTR", id |-> id, body |-> body, user |-> user])

\* a handler that does not test what getDTR returned
TransitionStep_Unchecked(q, rejects) ==
  CASE q.pc = "getDTR" ->
         IF rejects THEN Ends(Reply(q.op, q.id, 500))
         ELSE Goes([op |-> q.op, pc |-> "updateDTR", id |-> q.id,
                    body |-> q.body, user |-> q.user,
                    data |-> IF Exists(dtrs, q.id)
                             THEN Merge(dtrs[q.id],
                                        TransitionChange(q.op, dtrs[q.id],
                                                         q.body))
                             ELSE TransitionChange(q.op, <<>>, q.body)])
    [] q.pc = "updateDTR" ->
         IF rejects THEN Ends(Reply(q.op, q.id, 500))
         ELSE [Goes([op |-> q.op, pc |-> "getEmployee", id |-> q.id,
                     user |-> q.user])
                 EXCEPT !.dtrs = Update(dtrs, dtrSchema, q.id, q.data)]
    [] OTHER -> NameAndLog(q, rejects, 200)

\* getDTR, then updateDTR with { ...dtr, ...change } from the DTR as it was
\* read, then the employee's name and the activity
TransitionStep(q, rejects) ==
  CASE q.pc = "getDTR" ->
         IF rejects THEN Ends(Reply(q.op, q.id, 500))
         ELSE IF ~Exists(dtrs, q.id) THEN Ends(Reply(q.op, q.id, 404))
         ELSE Goes([op |-> q.op, pc |-> "updateDTR", id |-> q.id,
                    body |-> q.body, user |-> q.user,
                    data |-> Merge(dtrs[q.id],
                                   TransitionChange(q.op, dtrs[q.id],
                                                    q.body))])
    [] q.pc = "updateDTR" ->
         IF rejects THEN Ends(Reply(q.op, q.id, 500))
         ELSE [Goes([op |-> q.op, pc |-> "getEmployee", id |-> q.id,
                     user |-> q.user])
                 EXCEPT !.dtrs = Update(dtrs, dtrSchema, q.id, q.data)]
    [] OTHER -> NameAndLog(q, rejects, 200)

PatchDtrApprove(r, id, user) ==
  Arrive(r, TransitionArrival("approve", id, NoBody, user))

PatchDtrApproveResume(r, rejects) ==
  /\ Serving(r, "approve")
  /\ Take(r, TransitionStep(inflight[r], rejects))

PatchDtrReject(r, id, user) ==
  Arrive(r, TransitionArrival("reject", id, NoBody, user))

PatchDtrRejectResume(r, rejects) ==
  /\ Serving(r, "reject")
  /\ Take(r, TransitionStep(inflight[r], rejects))

PatchDtrRequestRevision(r, id, body, user) ==
  Arrive(r, TransitionArrival("requestRevision", id, body, user))

PatchDtrRequestRevisionResume(r, rejects) ==
  /\ Serving(r, "requestRevision")
  /\ Take(r, TransitionStep(inflight[r], rejects))

----------------------------------------------------------------------------
(* POST /api/dtrs/bulk/approve, /bulk/reject *)

Failed(id) == [id |-> id, message |-> "Failed to process"]

\* the status a bulk transition writes
BulkStatus(op) == IF op = "bulkApprove" THEN "Approved" ELSE "Rejected"

\* the update a bulk transition writes
BulkChange(op) == [status |-> BulkStatus(op), approvalDate |-> Today]

\* the status a bulk handler asks of a DTR, and the message when it differs
BulkRequires(op) == IF op = "bulkProcess" THEN "Approved" ELSE "Pending"

BulkMessage(op) ==
  CASE op = "bulkApprove" -> "DTR must be in Pending status to approve"
    [] op = "bulkReject" -> "DTR must be in Pending status to reject"
    [] op = "bulkProcess" ->
         "DTR must be in Approved status to process payroll"

\* a test of the status that lets every DTR through
WrongStatus_Never(op, dtr) == FALSE

\* dtr.status !== "Pending" (approve, reject), !== "Approved" (process)
WrongStatus(op, dtr) == dtr.status # BulkRequires(op)

\* a loop that ends at the first item that went to errors
NextItem_Aborts(q) ==
  IF q.i = Len(q.ids) \/ Len(q.errors) > 0
  THEN [op |-> q.op, pc |-> "logSummary", ids |-> q.ids, i |-> q.i,
        user |-> q.user, results |-> q.results, errors |-> q.errors]
  ELSE [op |-> q.op, pc |-> "getDTR", ids |-> q.ids, i |-> q.i + 1,
        user |-> q.user, results |-> q.results, errors |-> q.errors]

\* the for loop goes on to its next id, or to the summary after the last;
\* the variables of the loop body are gone
NextItem(q) ==
  IF q.i = Len(q.ids)
  THEN [op |-> q.op, pc |-> "logSummary", ids |-> q.ids, i |-> q.i,
        user |-> q.user, results |-> q.results, errors |-> q.errors]
  ELSE [op |-> q.op, pc |-> "getDTR", ids |-> q.ids, i |-> q.i + 1,
        user |-> q.user, results |-> q.results, errors |-> q.errors]

\* errors.push({ id: dtrId, message }) and continue, or the catch block
ItemFails(q, message) ==
  Goes(NextItem([q EXCEPT !.errors =
                   Append(@, [id |-> q.ids[q.i], message |-> message])]))

\* the response of a bulk endpoint
BulkReply(q) ==
  [op |-> q.op, id |-> NoId, code |-> 200, dtrIds |-> q.ids,
   processed |-> Len(q.results), total |-> Len(q.ids),
   results |-> q.results, errors |-> q.errors]

\* the request arrives: 400 for an empty list, else the loop starts
BulkArrival(op, ids, user) ==
  IF Len(ids) = 0 THEN Ends(Reply(op, NoId, 400))
  ELSE Goes([op |-> op, pc |-> "getDTR", ids |-> ids, i |-> 1,
             user |-> user, results |-> <<>>, errors |-> <<>>])

\* await storage.getDTR(dtrId) and the two tests that follow it
BulkGetOut(q, rejects) ==
  LET id == q.ids[q.i] IN
    IF rejects THEN ItemFails(q, "Failed to process")
    ELSE IF ~Exists(dtrs, id) THEN ItemFails(q, "DTR not found")
    ELSE IF WrongStatus(q.op, dtrs[id]) THEN ItemFails(q, BulkMessage(q.op))
    ELSE IF q.op = "bulkProcess"
    THEN Goes(Merge([q EXCEPT !.pc = "getEmployee"], [dtr |-> dtrs[id]]))
    ELSE Goes([q EXCEPT !.pc = "updateDTR"])

\* await logActivity(...) after the loop, and res.json
BulkSummaryOut(q, rejects) ==
  IF LogThrows(q.user, rejects) THEN Ends(Reply(q.op, NoId, 500))
  ELSE [Ends(BulkReply(q))
          EXCEPT !.activities = activities + logActivity(q.user)]

\* an update that is given up when the DTR is no longer Pending
BulkUpdateOut_Guarded(q, ds) ==
  IF ds[q.ids[q.i]].status = "Pending"
  THEN Update(ds, dtrSchema, q.ids[q.i], BulkChange(q.op))
  ELSE ds

\* await storage.updateDTR(dtrId, updateObj): the collection it leaves
BulkUpdateOut(q, ds) == Update(ds, dtrSchema, q.ids[q.i], BulkChange(q.op))

BulkTransitionStep(q, rejects) ==
  CASE q.pc = "getDTR" -> BulkGetOut(q, rejects)
    [] q.pc = "updateDTR" ->
         IF rejects THEN ItemFails(q, "Failed to process")
         ELSE [Goes([q EXCEPT !.pc = "getEmployee"])
                 EXCEPT !.dtrs = BulkUpdateOut(q, dtrs)]
    [] q.pc = "getEmployee" ->
         IF rejects THEN ItemFails(q, "Failed to process")
         ELSE Goes([q EXCEPT !.pc = "logActivity"])
    [] q.pc = "logActivity" ->
         IF LogThrows(q.user, rejects) THEN ItemFails(q, "Failed to process")
         ELSE [Goes(NextItem([q EXCEPT !.results =
                       Append(@, [id |-> q.ids[q.i],
                                  status |-> BulkStatus(q.op)])]))
                 EXCEPT !.activities = activities + logActivity(q.user)]
    [] q.pc = "logSummary" -> BulkSummaryOut(q, rejects)

PostDtrsBulkApprove(r, ids, user) ==
  Arrive(r, BulkArrival("bulkApprove", ids, user))

PostDtrsBulkApproveResume(r, rejects) ==
  /\ Serving(r, "bulkApprove")
  /\ Take(r, BulkTransitionStep(inflight[r], rejects))

PostDtrsBulkReject(r, ids, user) ==
  Arrive(r, BulkArrival("bulkReject", ids, user))

PostDtrsBulkRejectResume(r, rejects) ==
  /\ Serving(r, "bulkReject")
  /\ Take(r, BulkTransitionStep(inflight[r], rejects))

----------------------------------------------------------------------------
(* Per-DTR payroll: POST /api/payroll/process/:dtrId and                   *)
(* POST /api/dtrs/bulk/process-payroll                                     *)

\* dtr.overtimeHours || 0
OvertimeOf(dtr) == IF Has(dtr, "overtimeHours") THEN dtr.overtimeHours ELSE RZero

\* the same with the overtime multiplier of the generate handler
DtrPayrollData_GenerateOvertime(dtr, employee, rate, status) ==
  LET salary == employee.salary
      regularPay == RMul(dtr.regularHours, salary)
      overtimePay == RMul(RMul(OvertimeOf(dtr), salary), Rat(5, 4))
      grossPay == RAdd(regularPay, overtimePay)
      totalDeductions == RMul(grossPay, rate)
  IN  [employeeId |-> dtr.employeeId,
       payPeriodStart |-> dtr.date,
       payPeriodEnd |-> dtr.date,
       totalRegularHours |-> dtr.regularHours,
       totalOvertimeHours |-> OvertimeOf(dtr),
       grossPay |-> grossPay,
       totalDeductions |-> totalDeductions,
       netPay |-> RSub(grossPay, totalDeductions),
       status |-> status,
       processedBy |-> 1,
       processedDate |-> Today]

\* the payrollData of a single DTR; rate is the deduction rate of the handler
DtrPayrollData(dtr, employee, rate, status) ==
  LET salary == employee.salary
      regularPay == RMul(dtr.regularHours, salary)
      overtimePay == RMul(RMul(OvertimeOf(dtr), salary), Rat(3, 2))
      grossPay == RAdd(regularPay, overtimePay)
      totalDeductions == RMul(grossPay, rate)
  IN  [employeeId |-> dtr.employeeId,
       payPeriodStart |-> dtr.date,
       payPeriodEnd |-> dtr.date,
       totalRegularHours |-> dtr.regularHours,
       totalOvertimeHours |-> OvertimeOf(dtr),
       grossPay |-> grossPay,
       totalDeductions |-> totalDeductions,
       netPay |-> RSub(grossPay, totalDeductions),
       status |-> status,
       processedBy |-> 1,
       processedDate |-> Today]

PostPayrollProcessDtrArrival(id, user) ==
  Goes([op |-> "processDtr", pc |-> "getDTR", id |-> id, user |-> user])

PostPayrollProcessDtrStep(q, rejects) ==
  CASE q.pc = "getDTR" ->
         IF rejects THEN Ends(Reply(q.op, q.id, 500))
         ELSE IF ~Exists(dtrs, q.id) THEN Ends(Reply(q.op, q.id, 404))
         ELSE Goes([op |-> q.op, pc |-> "updateDTR", id |-> q.id,
                    user |-> q.user, dtr |-> dtrs[q.id]])
    [] q.pc = "updateDTR" ->
         IF rejects THEN Ends(Reply(q.op, q.id, 500))
         ELSE [Goes([q EXCEPT !.pc = "getEmployee"])
                 EXCEPT !.dtrs =
                          Update(dtrs, dtrSchema, q.id,
                                 Merge(q.dtr, [status |-> "Processing"]))]
    [] q.pc = "getEmployee" ->
         IF rejects THEN Ends(Reply(q.op, q.id, 500))
         ELSE IF ~Exists(employees, q.dtr.employeeId)
         THEN Ends(Reply(q.op, q.id, 404))
         ELSE Goes([op |-> q.op, pc |-> "createPayroll", id |-> q.id,
                    user |-> q.user, dtr |-> q.dtr,
                    data |-> DtrPayrollData(q.dtr, employees[q.dtr.employeeId],
                                            Rat(1, 10), "Pending")])
    [] q.pc = "createPayroll" ->
         IF rejects \/ ~Validates(payrollSchema, q.data)
         THEN Ends(Reply(q.op, q.id, 500))
         ELSE [Goes([op |-> q.op, pc |-> "logActivity", id |-> q.id,
                     user |-> q.user])
                 EXCEPT !.payrolls = Create(payrolls, payrollSchema, q.data)]
    [] q.pc = "logActivity" -> NameAndLog(q, rejects, 200)

PostPayrollProcessDtr(r, id, user) ==
  Arrive(r, PostPayrollProcessDtrArrival(id, user))

PostPayrollProcessDtrResume(r, rejects) ==
  /\ Serving(r, "processDtr")
  /\ Take(r, PostPayrollProcessDtrStep(inflight[r], rejects))

\* the loop body of bulk process-payroll after getDTR: getEmployee,
\* createPayroll with results.push, logActivity
BulkProcessStep(q, rejects) ==
  CASE q.pc = "getDTR" -> BulkGetOut(q, rejects)
    [] q.pc = "getEmployee" ->
         IF rejects THEN ItemFails(q, "Failed to process")
         ELSE IF ~Exists(employees, q.dtr.employeeId)
         THEN ItemFails(q, "Employee not found")
         ELSE Goes([op |-> q.op, pc |-> "createPayroll", ids |-> q.ids,
                    i |-> q.i, user |-> q.user, results |-> q.results,
                    errors |-> q.errors, dtr |-> q.dtr,
                    data |-> Merge(DtrPayrollData(q.dtr,
                                     employees[q.dtr.employeeId],
                                     Rat(15, 100), "Processed"),
                                   [dtrId |-> q.dtr.id])])
    [] q.pc = "createPayroll" ->
         IF rejects \/ ~Validates(payrollSchema, q.data)
         THEN ItemFails(q, "Failed to process")
         ELSE [Goes([op |-> q.op, pc |-> "logActivity", ids |-> q.ids,
                     i |-> q.i, user |-> q.user,
                     results |-> Append(q.results,
                                        [id |-> Len(payrolls) + 1,
                                         status |-> "Processed"]),
                     errors |-> q.errors])
                 EXCEPT !.payrolls = Create(payrolls, payrollSchema, q.data)]
    [] q.pc = "logActivity" ->
         IF LogThrows(q.user, rejects) THEN ItemFails(q, "Failed to process")
         ELSE [Goes(NextItem(q))
                 EXCEPT !.activities = activities + logActivity(q.user)]
    [] q.pc = "logSummary" -> BulkSummaryOut(q, rejects)

PostDtrsBulkProcessPayroll(r, ids, user) ==
  Arrive(r, BulkArrival("bulkProcess", ids, user))

PostDtrsBulkProcessPayrollResume(r, rejects) ==
  /\ Serving(r, "bulkProcess")
  /\ Take(r, BulkProcessStep(inflight[r], rejects))

----------------------------------------------------------------------------
(* POST /api/payrolls *)

\* insertPayrollSchema.parse(req.body) does not throw; the body goes to
\* createPayroll as it came, with the fields the schema does not name
insertPayrollSchema(body) ==
  /\ {"employeeId", "payPeriodStart", "payPeriodEnd", "totalRegularHours",
      "totalOvertimeHours", "grossPay", "totalDeductions", "netPay",
      "status"} \subseteq DOMAIN body
  /\ body.status \in {"Pending", "Processed", "Paid"}

PostPayrollsArrival(body, user) ==
  IF ~insertPayrollSchema(body) THEN Ends(Reply("postPayroll", NoId, 400))
  ELSE Goes([op |-> "postPayroll", pc |-> "createPayroll", body |-> body,
             user |-> user])

PostPayrollsStep(q, rejects) ==
  CASE q.pc = "createPayroll" ->
         IF rejects \/ ~Validates(payrollSchema, q.body)
         THEN Ends(Reply("postPayroll", NoId, 500))
         ELSE [Goes([op |-> "postPayroll", pc |-> "getEmployee",
                     id |-> Len(payrolls) + 1, user |-> q.user])
                 EXCEPT !.payrolls = Create(payrolls, payrollSchema, q.body)]
    [] OTHER -> NameAndLog(q, rejects, 201)

PostPayrolls(r, body, user) == Arrive(r, PostPayrollsArrival(body, user))

PostPayrollsResume(r, rejects) ==
  /\ Serving(r, "postPayroll")
  /\ Take(r, PostPayrollsStep(inflight[r], rejects))

----------------------------------------------------------------------------
(* POST /api/payrolls/generate *)

\* p.payPeriodStart, p.periodStart, ...: undefined when the field is absent
DateField(doc, f) == IF Has(doc, f) THEN doc[f] ELSE NoDate

\* the filter of the employee's DTRs in the period, whatever their status
employeeDtrs_AnyStatus(all, employee, periodStart, periodEnd) ==
  SelectSeq(all, LAMBDA dtr :
    /\ dtr.employeeId = IdOf(employee)
    /\ DateGeq(dtr.date, periodStart)
    /\ DateLeq(dtr.date, periodEnd))

\* the filter of the employee's approved DTRs in the period
employeeDtrs(all, employee, periodStart, periodEnd) ==
  SelectSeq(all, LAMBDA dtr :
    /\ dtr.employeeId = IdOf(employee)
    /\ dtr.status = "Approved"
    /\ DateGeq(dtr.date, periodStart)
    /\ DateLeq(dtr.date, periodEnd))

\* allPayrolls.some(p => same employee, payPeriodStart and payPeriodEnd)
alreadyExists(all, employee, periodStart, periodEnd) ==
  \E i \in 1..Len(all) :
    /\ all[i].employeeId = IdOf(employee)
    /\ DateField(all[i], "payPeriodStart") = periodStart
    /\ DateField(all[i], "payPeriodEnd") = periodEnd

RECURSIVE SumRegularHours(_, _)
SumRegularHours(ds, i) ==
  IF i > Len(ds) THEN RZero
  ELSE RAdd(ds[i].regularHours, SumRegularHours(ds, i + 1))

RECURSIVE SumOvertimeHours(_, _)
SumOvertimeHours(ds, i) ==
  IF i > Len(ds) THEN RZero
  ELSE RAdd(OvertimeOf(ds[i]), SumOvertimeHours(ds, i + 1))

\* the payrollData generated for one employee from the DTRs ds, on a server
\* in zone z
GeneratedPayrollData(employee, ds, periodStart, periodEnd, z) ==
  LET totalRegularHours == SumRegularHours(ds, 1)
      totalOvertimeHours == SumOvertimeHours(ds, 1)
      daysInPeriod == ToTime(periodEnd) - ToTime(periodStart) + 1
      days == daysInMonth(periodStart, z)
      regular == employee.employeeType = "Regular"
      regularPay ==
        IF regular
        THEN RMul(employee.salary, Rat(daysInPeriod, days))
        ELSE RMul(totalRegularHours, employee.salary)
      overtimePay ==
        IF regular
        THEN RMul(RMul(totalOvertimeHours,
                       RDivInt(RDivInt(employee.salary, days), 8)),
                  Rat(5, 4))
        ELSE RMul(RMul(totalOvertimeHours, employee.salary), Rat(5, 4))
      grossPay == RAdd(regularPay, overtimePay)
      taxDeduction == RMul(grossPay, Rat(1, 10))
      totalDeductions == RAdd(RAdd(taxDeduction, RZero), RZero)
  IN  [employeeId |-> IdOf(employee),
       periodStart |-> periodStart,
       periodEnd |-> periodEnd,
       basicPay |-> regularPay,
       overtimePay |-> overtimePay,
       deductions |-> <<[type |-> "Tax", amount |-> taxDeduction]>>,
       netPay |-> RSub(grossPay, totalDeductions),
       status |-> "Pending",
       totalRegularHours |-> totalRegularHours,
       totalOvertimeHours |-> totalOvertimeHours,
       grossPay |-> grossPay,
       totalDeductions |-> totalDeductions]

\* every employee, whatever their status
activeEmployees_All(emps) == emps

\* employees.filter(emp => emp.status === "Active")
activeEmployees(emps) == SelectSeq(emps, LAMBDA emp : emp.status = "Active")

\* res.json({ message, payrolls })
GenerateReply(q) ==
  [op |-> "generate", id |-> NoId, code |-> 200, payrolls |-> q.generated,
   periodStart |-> q.periodStart, periodEnd |-> q.periodEnd]

\* the for loop goes on to its next employee (q.active holds the employee of
\* this pass and those still to come), or the handler responds after the last
NextEmployee(q) ==
  IF Len(q.active) <= 1 THEN Ends(GenerateReply(q))
  ELSE Goes([op |-> "generate", pc |-> "getAllDTRs",
             periodStart |-> q.periodStart, periodEnd |-> q.periodEnd,
             user |-> q.user, active |-> Tail(q.active),
             generated |-> q.generated])

PostPayrollsGenerateArrival(periodStart, periodEnd, user) ==
  Goes([op |-> "generate", pc |-> "getAllEmployees",
        periodStart |-> periodStart, periodEnd |-> periodEnd, user |-> user])

\* a createPayroll that moves the DTRs it pays to Processing
GenerateCreateOut_MarksDtrs(q, ds) ==
  [i \in 1..Len(ds) |->
     IF \E k \in 1..Len(q.ds) : q.ds[k].id = ds[i].id
     THEN Merge(ds[i], [status |-> "Processing"])
     ELSE ds[i]]

\* the DTRs after await storage.createPayroll(payrollData): "Do NOT update
\* DTRs here"
GenerateCreateOut(q, ds) == ds

PostPayrollsGenerateStep(q, rejects) ==
  CASE q.pc = "getAllEmployees" ->
         IF rejects THEN Ends(Reply("generate", NoId, 500))
         ELSE LET active == activeEmployees(employees)
                  begun == [op |-> "generate", pc |-> "getAllDTRs",
                            periodStart |-> q.periodStart,
                            periodEnd |-> q.periodEnd, user |-> q.user,
                            active |-> active, generated |-> <<>>]
              IN  IF Len(active) = 0 THEN Ends(GenerateReply(begun))
                  ELSE Goes(begun)
    [] q.pc = "getAllDTRs" ->
         IF rejects THEN Ends(Reply("generate", NoId, 500))
         ELSE LET ds == employeeDtrs(dtrs, Head(q.active), q.periodStart,
                                     q.periodEnd)
              IN  IF Len(ds) = 0 THEN NextEmployee(q)
                  ELSE Goes(Merge([q EXCEPT !.pc = "getAllPayrolls"],
                                  [ds |-> ds]))
    [] q.pc = "getAllPayrolls" ->
         IF rejects THEN Ends(Reply("generate", NoId, 500))
         ELSE IF alreadyExists(payrolls, Head(q.active), q.periodStart,
                               q.periodEnd)
         THEN NextEmployee(q)
         ELSE Goes([q EXCEPT !.pc = "createPayroll"])
    [] q.pc = "createPayroll" ->
         LET payrollData == GeneratedPayrollData(Head(q.active), q.ds,
                              q.periodStart, q.periodEnd, zone)
         IN  IF rejects \/ ~Validates(payrollSchema, payrollData)
             THEN Ends(Reply("generate", NoId, 500))
             ELSE [Goes([op |-> "generate", pc |-> "logActivity",
                         periodStart |-> q.periodStart,
                         periodEnd |-> q.periodEnd, user |-> q.user,
                         active |-> q.active,
                         generated |-> Append(q.generated,
                                              Len(payrolls) + 1)])
                     EXCEPT !.payrolls =
                              Create(payrolls, payrollSchema, payrollData),
                            !.dtrs = GenerateCreateOut(q, dtrs)]
    [] q.pc = "logActivity" ->
         IF LogThrows(q.user, rejects) THEN Ends(Reply("generate", NoId, 500))
         ELSE [NextEmployee(q)
                 EXCEPT !.activities = activities + logActivity(q.user)]

PostPayrollsGenerate(r, periodStart, periodEnd, user) ==
  Arrive(r, PostPayrollsGenerateArrival(periodStart, periodEnd, user))

PostPayrollsGenerateResume(r, rejects) ==
  /\ Serving(r, "generate")
  /\ Take(r, PostPayrollsGenerateStep(inflight[r], rejects))

----------------------------------------------------------------------------
(* PATCH /api/payrolls/:id/process and /mark-paid *)

\* the DTRs the process handler selects
processDtrsToUpdate(all, payroll) ==
  SelectSeq(all, LAMBDA dtr :
    /\ dtr.employeeId = payroll.employeeId
    /\ dtr.status = "Processing"
    /\ DateGeq(dtr.date, DateField(payroll, "payPeriodStart"))
    /\ DateLeq(dtr.date, DateField(payroll, "payPeriodEnd")))

\* payroll.payPeriodStart || payroll.periodStart
PeriodStartOf(payroll) ==
  IF DateField(payroll, "payPeriodStart") # NoDate
  THEN payroll.payPeriodStart ELSE DateField(payroll, "periodStart")

PeriodEndOf(payroll) ==
  IF DateField(payroll, "payPeriodEnd") # NoDate
  THEN payroll.payPeriodEnd ELSE DateField(payroll, "periodEnd")

\* the mark-paid selection restricted to DTRs in Processing
markPaidDtrsToUpdate_OnlyProcessing(all, payroll) ==
  SelectSeq(all, LAMBDA dtr :
    /\ dtr.employeeId = payroll.employeeId
    /\ dtr.status = "Processing"
    /\ PeriodStartOf(payroll) # NoDate
    /\ PeriodEndOf(payroll) # NoDate
    /\ DateGeq(dtr.date, PeriodStartOf(payroll))
    /\ DateLeq(dtr.date, PeriodEndOf(payroll)))

\* the mark-paid selection without the test of the employee
markPaidDtrsToUpdate_AnyEmployee(all, payroll) ==
  SelectSeq(all, LAMBDA dtr :
    /\ dtr.status # "Paid"
    /\ PeriodStartOf(payroll) # NoDate
    /\ PeriodEndOf(payroll) # NoDate
    /\ DateGeq(dtr.date, PeriodStartOf(payroll))
    /\ DateLeq(dtr.date, PeriodEndOf(payroll)))

\* the DTRs the mark-paid handler selects
markPaidDtrsToUpdate(all, payroll) ==
  SelectSeq(all, LAMBDA dtr :
    /\ dtr.employeeId = payroll.employeeId
    /\ dtr.status # "Paid"
    /\ PeriodStartOf(payroll) # NoDate
    /\ PeriodEndOf(payroll) # NoDate
    /\ DateGeq(dtr.date, PeriodStartOf(payroll))
    /\ DateLeq(dtr.date, PeriodEndOf(payroll)))

\* the key each handler passes to updateDTR: dtr._id in process,
\* dtr._id || dtr.id in mark-paid
DtrKey(op, dtr) == IF op = "processPayroll" THEN UnderscoreId(dtr) ELSE IdOf(dtr)

\* the status each handler writes on the DTRs it has selected
DtrStatusAfter(op) == IF op = "processPayroll" THEN "Processed" ELSE "Paid"

\* the for loop over dtrsToUpdate begins or goes on, todo being the DTRs
\* still to update as getAllDTRs returned them; res.json(updatedPayroll)
\* after the last
UpdateRest(q, todo) ==
  IF Len(todo) = 0 THEN Ends(Reply(q.op, q.id, 200))
  ELSE Goes([op |-> q.op, pc |-> "updateDTR", id |-> q.id, todo |-> todo])

\* await storage.updateDTR(key, { ...dtr, status }) for the first of q.todo
UpdateFirst(q, rejects) ==
  IF rejects THEN Ends(Reply(q.op, q.id, 500))
  ELSE [UpdateRest(q, Tail(q.todo))
          EXCEPT !.dtrs =
                   Update(dtrs, dtrSchema, DtrKey(q.op, Head(q.todo)),
                          Merge(Head(q.todo),
                                [status |-> DtrStatusAfter(q.op)]))]

PatchPayrollArrival(op, id) == Goes([op |-> op, pc |-> "getPayroll", id |-> id])

PatchPayrollProcessStep(q, rejects) ==
  CASE q.pc = "getPayroll" ->
         IF rejects THEN Ends(Reply(q.op, q.id, 500))
         ELSE IF ~Exists(payrolls, q.id) THEN Ends(Reply(q.op, q.id, 404))
         ELSE Goes([op |-> q.op, pc |-> "updatePayroll", id |-> q.id,
                    payroll |-> payrolls[q.id]])
    [] q.pc = "updatePayroll" ->
         IF rejects THEN Ends(Reply(q.op, q.id, 500))
         ELSE [Goes([q EXCEPT !.pc = "getEmployee"])
                 EXCEPT !.payrolls =
                          Update(payrolls, payrollSchema, q.id,
                                 Merge(q.payroll, [status |-> "Processed",
                                                   processedBy |-> 1,
                                                   processedDate |-> Today]))]
    [] q.pc = "getEmployee" ->
         IF rejects THEN Ends(Reply(q.op, q.id, 500))
         ELSE Goes([q EXCEPT !.pc = "getAllDTRs"])
    [] q.pc = "getAllDTRs" ->
         IF rejects THEN Ends(Reply(q.op, q.id, 500))
         ELSE UpdateRest(q, processDtrsToUpdate(dtrs, q.payroll))
    [] q.pc = "updateDTR" -> UpdateFirst(q, rejects)

PatchPayrollProcess(r, id) ==
  Arrive(r, PatchPayrollArrival("processPayroll", id))

PatchPayrollProcessResume(r, rejects) ==
  /\ Serving(r, "processPayroll")
  /\ Take(r, PatchPayrollProcessStep(inflight[r], rejects))

PatchPayrollMarkPaidStep(q, rejects) ==
  CASE q.pc = "getPayroll" ->
         IF rejects THEN Ends(Reply(q.op, q.id, 500))
         ELSE IF ~Exists(payrolls, q.id) THEN Ends(Reply(q.op, q.id, 404))
         ELSE Goes([op |-> q.op, pc |-> "updatePayroll", id |-> q.id,
                    payroll |-> payrolls[q.id]])
    [] q.pc = "updatePayroll" ->
         IF rejects THEN Ends(Reply(q.op, q.id, 500))
         ELSE [Goes([q EXCEPT !.pc = "getAllDTRs"])
                 EXCEPT !.payrolls =
                          Update(payrolls, payrollSchema, q.id,
                                 Merge(q.payroll, [status |-> "Paid",
                                                   paymentDate |-> Today]))]
    [] q.pc = "getAllDTRs" ->
         IF rejects THEN Ends(Reply(q.op, q.id, 500))
         ELSE UpdateRest(q, markPaidDtrsToUpdate(dtrs, q.payroll))
    [] q.pc = "updateDTR" -> UpdateFirst(q, rejects)

PatchPayrollMarkPaid(r, id) == Arrive(r, PatchPayrollArrival("markPaid", id))

PatchPayrollMarkPaidResume(r, rejects) ==
  /\ Serving(r, "markPaid")
  /\ Take(r, PatchPayrollMarkPaidStep(inflight[r], rejects))

----------------------------------------------------------------------------
(* POST /api/dtr-formats, /api/unknown-dtr-formats, its /approve, and      *)
(* POST /api/process-dtr-image                                             *)

\* createDtrFormat, createUnknownDtrFormat, getUnknownDtrFormat and
\* getAllDtrFormats of the store: throw new Error('Method not implemented.')
\* The call is the first await of its handler, whose catch answers 500
NotImplemented(q) == Ends(Reply(q.op, q.id, 500))

PostDtrFormats(r, user) ==
  Arrive(r, Goes([op |-> "postDtrFormat", pc |-> "createDtrFormat",
                  id |-> NoId, user |-> user]))

PostDtrFormatsResume(r) ==
  /\ Serving(r, "postDtrFormat")
  /\ Take(r, NotImplemented(inflight[r]))

PostUnknownDtrFormats(r, user) ==
  Arrive(r, Goes([op |-> "postUnknownDtrFormat",
                  pc |-> "createUnknownDtrFormat", id |-> NoId,
                  user |-> user]))

PostUnknownDtrFormatsResume(r) ==
  /\ Serving(r, "postUnknownDtrFormat")
  /\ Take(r, NotImplemented(inflight[r]))

PostUnknownDtrFormatsApprove(r, id, user) ==
  Arrive(r, Goes([op |-> "approveFormat", pc |-> "getUnknownDtrFormat",
                  id |-> id, user |-> user]))

PostUnknownDtrFormatsApproveResume(r) ==
  /\ Serving(r, "approveFormat")
  /\ Take(r, NotImplemented(inflight[r]))

PostProcessDtrImage(r, employeeId, user) ==
  Arrive(r, Goes([op |-> "processDtrImage", pc |-> "getAllDtrFormats",
                  id |-> employeeId, user |-> user]))

PostProcessDtrImageResume(r) ==
  /\ Serving(r, "processDtrImage")
  /\ Take(r, NotImplemented(inflight[r]))
----------------------------------------------------------------------------
(* The requests of the model *)

\* the employees on file: a salaried Regular employee and an hourly Contract
\* employee
SeedEmployees ==
  <<[id |-> 1, firstName |-> "Lea", lastName |-> "Santos",
     email |-> "lea@acme.test", phone |-> "551", position |-> "Fitter",
     department |-> "Yard", employeeType |-> "Regular", dateHired |-> 101,
     status |-> "Active", salary |-> RInt(20000)],
    [id |-> 2, firstName |-> "Ben", lastName |-> "Reyes",
     email |-> "ben@acme.test", phone |-> "552", position |-> "Rigger",
     department |-> "Yard", employeeType |-> "Contract", dateHired |-> 101,
     status |-> "Active", salary |-> RInt(100)]>>

\* an employeeId that names no employee
MissingEmployee == MaxEmployees + 1

DtrBody(e, date) ==
  [employeeId |-> e, date |-> date, timeIn |-> 800, timeOut |-> 1700,
   breakHours |-> RInt(1), overtimeHours |-> RZero, type |-> "Daily",
   status |-> "Pending", submissionDate |-> date]

DtrBodies ==
  {DtrBody(1, 610), DtrBody(1, 620), DtrBody(2, 610),
   DtrBody(MissingEmployee, 610)}

\* a body insertDtrSchema refuses: the status is not one of its enum
RefusedDtrBody == Merge(DtrBody(1, 610), [status |-> "Paid"])

DtrStatuses ==
  {"Pending", "Approved", "Rejected", "Processing", "Processed", "Paid"}

\* bodies of PATCH /api/dtrs/:id
PatchBodies == {[status |-> st] : st \in DtrStatuses}

\* bodies of POST /api/employees: one the schema takes and one it refuses
EmployeeBodies ==
  {[firstName |-> "Ana", lastName |-> "Cruz", email |-> "ana@acme.test",
    phone |-> "555", position |-> "Welder", department |-> "Yard",
    employeeType |-> type, dateHired |-> 601, status |-> "Active",
    salary |-> RInt(150), companyId |-> 1] :
     type \in {"Project-based", "Intern"}}

\* bodies of POST /api/employees told apart by their texts: an email without
\* the form of an address, which insertEmployeeSchema refuses, and an empty
\* phone, which it takes and save() refuses
EmployeeTextBodies ==
  {Merge(body, text) :
     body \in {b \in EmployeeBodies : b.employeeType = "Project-based"},
     text \in {[email |-> "ana"], [phone |-> ""]}}

\* bodies of PATCH /api/employees/:id
EmployeePatchBodies == {[salary |-> RInt(31000)], [status |-> "Inactive"]}

\* bodies of PATCH /api/employees/:id that give the employee another email
EmailPatchBodies == {[email |-> "new@acme.test"], [email |-> "lea@acme.test"]}

\* a body of POST /api/payrolls that insertPayrollSchema takes, for employee 1
\* and the first half of June
PayrollBody ==
  [employeeId |-> 1, payPeriodStart |-> 601, payPeriodEnd |-> 615,
   totalRegularHours |-> RInt(8), totalOvertimeHours |-> RZero,
   grossPay |-> RInt(800), totalDeductions |-> RInt(80),
   netPay |-> RInt(720), status |-> "Pending"]

\* the same body with the paths the Payroll model requires, which
\* insertPayrollSchema does not name
PayrollBodyWithPaths ==
  Merge(PayrollBody,
        [periodStart |-> 601, periodEnd |-> 615, basicPay |-> RInt(800)])

\* one body that insertPayrollSchema and the Payroll model take, one that
\* only insertPayrollSchema takes, and one that it refuses
PayrollBodies ==
  {PayrollBodyWithPaths, PayrollBody,
   [employeeId |-> 1, payPeriodStart |-> 601, payPeriodEnd |-> 615,
    status |-> "Pending"]}

\* bodies of POST /api/companies: one the schema takes and one it refuses
CompanyBodies ==
  {[name |-> "Acme", address |-> "1 Quay", contactPerson |-> "Cy",
    contactEmail |-> "cy@acme.test", contactPhone |-> "555",
    status |-> st] : st \in {"Active", "Closed"}}

\* a body of POST /api/companies with an empty name, which
\* insertCompanySchema takes and save() refuses
CompanyTextBodies == {Merge(b, [name |-> ""]) : b \in CompanyBodies}

\* bodies of PATCH /api/companies/:id
CompanyPatchBodies == {[name |-> "Apex"]}

\* pay periods asked of POST /api/payrolls/generate
Periods == {<<601, 615>>}

\* ids a request can name: every stored DTR or payroll and one that is not
DtrIds == 1..(MaxDtrs + 1)
PayrollIds == 1..(MaxPayrolls + 1)
EmployeeIds == 1..(MaxEmployees + 1)
CompanyIds == 1..(MaxCompanies + 1)
\* the id POST /api/unknown-dtr-formats/:id/approve names
FormatIds == {1}

IdLists(n) == UNION {[1..k -> DtrIds] : k \in 0..n}

\* the one request of a server that serves its requests one after the other
One == {"a"}

\* no storage call rejects
NoCalls == {}

\* every storage call the handlers await
AllCalls ==
  {"createEmployee", "hash", "createUser", "updateEmployee", "getEmployee",
   "createDTR", "updateDTR", "getDTR", "getAllDTRs", "getAllEmployees",
   "getAllPayrolls", "createPayroll", "getPayroll", "updatePayroll",
   "createActivity", "logSummary", "createCompany", "updateCompany",
   "getCompany"}

\* no company, and no createActivity under way
NothingElse ==
  /\ companies = <<>>
  /\ detached = 0

\* the server starts on a database that holds the two employees and nothing
\* else; no request is being served
Init ==
  /\ employees = SeedEmployees
  /\ dtrs = <<>>
  /\ payrolls = <<>>
  /\ activities = 0
  /\ resp = NoResponse
  /\ inflight = NoRequests
  /\ NothingElse
  /\ zone \in Zones

\* each handler with the step that takes it from one await to the next; slots
\* are the requests served at the same time, calls the storage calls that may
\* reject
\* whether the createActivity of a logActivity that is not awaited may reject
LogRejections(calls) ==
  IF "createActivity" \in calls THEN BOOLEAN ELSE {FALSE}

\* the createActivity calls under way complete, in a turn of their own
DetachedLogs(calls) ==
  \E rejects \in LogRejections(calls) : CreateActivityDetached(rejects)

HireRequests(slots, bodies, calls) ==
  \/ \E r \in slots, body \in bodies : PostEmployees(r, body)
  \/ \E r \in slots : \E rejects \in Rejections(r, calls) :
       PostEmployeesResume(r, rejects)

EmployeePatchRequests(slots, ids, bodies, users, calls) ==
  \/ \E r \in slots, id \in ids, body \in bodies, user \in users :
       PatchEmployee(r, id, body, user)
  \/ \E r \in slots : \E rejects \in Rejections(r, calls) :
       PatchEmployeeResume(r, rejects)

ActivateRequests(slots, ids, users, calls) ==
  \/ \E r \in slots, id \in ids, user \in users :
       PatchEmployeeActivate(r, id, user)
  \/ \E r \in slots : \E rejects \in Rejections(r, calls) :
       PatchEmployeeActivateResume(r, rejects)

DeactivateRequests(slots, ids, users, calls) ==
  \/ \E r \in slots, id \in ids, user \in users :
       PatchEmployeeDeactivate(r, id, user)
  \/ \E r \in slots : \E rejects \in Rejections(r, calls) :
       PatchEmployeeDeactivateResume(r, rejects)

CompanySubmitRequests(slots, bodies, users, calls) ==
  \/ \E r \in slots, body \in bodies, user \in users :
       PostCompanies(r, body, user)
  \/ \E r \in slots : \E rejects \in Rejections(r, calls) :
       PostCompaniesResume(r, rejects)

CompanyPatchRequests(slots, ids, bodies, users, calls) ==
  \/ \E r \in slots, id \in ids, body \in bodies, user \in users :
       PatchCompany(r, id, body, user)
  \/ \E r \in slots : \E rejects \in Rejections(r, calls) :
       PatchCompanyResume(r, rejects)

CompanyActivateRequests(slots, ids, users, calls) ==
  \/ \E r \in slots, id \in ids, user \in users :
       PatchCompanyActivate(r, id, user)
  \/ \E r \in slots : \E rejects \in Rejections(r, calls) :
       PatchCompanyActivateResume(r, rejects)

CompanyDeactivateRequests(slots, ids, users, calls) ==
  \/ \E r \in slots, id \in ids, user \in users :
       PatchCompanyDeactivate(r, id, user)
  \/ \E r \in slots : \E rejects \in Rejections(r, calls) :
       PatchCompanyDeactivateResume(r, rejects)

FormatSubmitRequests(slots, users) ==
  \/ \E r \in slots, user \in users : PostDtrFormats(r, user)
  \/ \E r \in slots : PostDtrFormatsResume(r)

UnknownFormatSubmitRequests(slots, users) ==
  \/ \E r \in slots, user \in users : PostUnknownDtrFormats(r, user)
  \/ \E r \in slots : PostUnknownDtrFormatsResume(r)

FormatApproveRequests(slots, ids, users) ==
  \/ \E r \in slots, id \in ids, user \in users :
       PostUnknownDtrFormatsApprove(r, id, user)
  \/ \E r \in slots : PostUnknownDtrFormatsApproveResume(r)

ImageRequests(slots, ids, users) ==
  \/ \E r \in slots, id \in ids, user \in users :
       PostProcessDtrImage(r, id, user)
  \/ \E r \in slots : PostProcessDtrImageResume(r)

SubmitRequests(slots, bodies, users, calls) ==
  \/ \E r \in slots, body \in bodies, user \in users : PostDtrs(r, body, user)
  \/ \E r \in slots : \E rejects \in Rejections(r, calls) :
       PostDtrsResume(r, rejects)

PatchRequests(slots, ids, bodies, users, calls) ==
  \/ \E r \in slots, id \in ids, body \in bodies, user \in users :
       PatchDtr(r, id, body, user)
  \/ \E r \in slots : \E rejects \in Rejections(r, calls) :
       PatchDtrResume(r, rejects)

ApproveRequests(slots, ids, users, calls) ==
  \/ \E r \in slots, id \in ids, user \in users : PatchDtrApprove(r, id, user)
  \/ \E r \in slots : \E rejects \in Rejections(r, calls) :
       PatchDtrApproveResume(r, rejects)

RejectRequests(slots, ids, users, calls) ==
  \/ \E r \in slots, id \in ids, user \in users : PatchDtrReject(r, id, user)
  \/ \E r \in slots : \E rejects \in Rejections(r, calls) :
       PatchDtrRejectResume(r, rejects)

RevisionRequests(slots, ids, bodies, users, calls) ==
  \/ \E r \in slots, id \in ids, body \in bodies, user \in users :
       PatchDtrRequestRevision(r, id, body, user)
  \/ \E r \in slots : \E rejects \in Rejections(r, calls) :
       PatchDtrRequestRevisionResume(r, rejects)

BulkApproveRequests(slots, lists, users, calls) ==
  \/ \E r \in slots, ids \in lists, user \in users :
       PostDtrsBulkApprove(r, ids, user)
  \/ \E r \in slots : \E rejects \in Rejections(r, calls) :
       PostDtrsBulkApproveResume(r, rejects)

BulkRejectRequests(slots, lists, users, calls) ==
  \/ \E r \in slots, ids \in lists, user \in users :
       PostDtrsBulkReject(r, ids, user)
  \/ \E r \in slots : \E rejects \in Rejections(r, calls) :
       PostDtrsBulkRejectResume(r, rejects)

BulkProcessRequests(slots, lists, users, calls) ==
  \/ \E r \in slots, ids \in lists, user \in users :
       PostDtrsBulkProcessPayroll(r, ids, user)
  \/ \E r \in slots : \E rejects \in Rejections(r, calls) :
       PostDtrsBulkProcessPayrollResume(r, rejects)

ProcessDtrRequests(slots, ids, users, calls) ==
  \/ \E r \in slots, id \in ids, user \in users :
       PostPayrollProcessDtr(r, id, user)
  \/ \E r \in slots : \E rejects \in Rejections(r, calls) :
       PostPayrollProcessDtrResume(r, rejects)

PayrollSubmitRequests(slots, bodies, users, calls) ==
  \/ \E r \in slots, body \in bodies, user \in users :
       PostPayrolls(r, body, user)
  \/ \E r \in slots : \E rejects \in Rejections(r, calls) :
       PostPayrollsResume(r, rejects)

GenerateRequests(slots, periods, users, calls) ==
  \/ \E r \in slots, period \in periods, user \in users :
       PostPayrollsGenerate(r, period[1], period[2], user)
  \/ \E r \in slots : \E rejects \in Rejections(r, calls) :
       PostPayrollsGenerateResume(r, rejects)

ProcessRequests(slots, ids, calls) ==
  \/ \E r \in slots, id \in ids : PatchPayrollProcess(r, id)
  \/ \E r \in slots : \E rejects \in Rejections(r, calls) :
       PatchPayrollProcessResume(r, rejects)

MarkPaidRequests(slots, ids, calls) ==
  \/ \E r \in slots, id \in ids : PatchPayrollMarkPaid(r, id)
  \/ \E r \in slots : \E rejects \in Rejections(r, calls) :
       PatchPayrollMarkPaidResume(r, rejects)

\* every request, two served at a time, any call rejecting
Next ==
  \/ HireRequests(Requests, EmployeeBodies \cup EmployeeTextBodies, AllCalls)
  \/ EmployeePatchRequests(Requests, EmployeeIds,
                           EmployeePatchBodies \cup EmailPatchBodies, Users,
                           AllCalls)
  \/ ActivateRequests(Requests, EmployeeIds, Users, AllCalls)
  \/ DeactivateRequests(Requests, EmployeeIds, Users, AllCalls)
  \/ SubmitRequests(Requests, DtrBodies \cup {RefusedDtrBody}, Users, AllCalls)
  \/ PatchRequests(Requests, DtrIds, PatchBodies, Users, AllCalls)
  \/ ApproveRequests(Requests, DtrIds, Users, AllCalls)
  \/ RejectRequests(Requests, DtrIds, Users, AllCalls)
  \/ RevisionRequests(Requests, DtrIds, {NoBody}, Users, AllCalls)
  \/ BulkApproveRequests(Requests, IdLists(MaxBulk), Users, AllCalls)
  \/ BulkRejectRequests(Requests, IdLists(MaxBulk), Users, AllCalls)
  \/ BulkProcessRequests(Requests, IdLists(MaxBulk), Users, AllCalls)
  \/ ProcessDtrRequests(Requests, DtrIds, Users, AllCalls)
  \/ PayrollSubmitRequests(Requests, PayrollBodies, Users, AllCalls)
  \/ GenerateRequests(Requests, Periods, Users, AllCalls)
  \/ ProcessRequests(Requests, PayrollIds, AllCalls)
  \/ MarkPaidRequests(Requests, PayrollIds, AllCalls)
  \/ CompanySubmitRequests(Requests, CompanyBodies \cup CompanyTextBodies,
                           Users, AllCalls)
  \/ CompanyPatchRequests(Requests, CompanyIds, CompanyPatchBodies, Users,
                          AllCalls)
  \/ CompanyActivateRequests(Requests, CompanyIds, Users, AllCalls)
  \/ CompanyDeactivateRequests(Requests, CompanyIds, Users, AllCalls)
  \/ FormatSubmitRequests(Requests, Users)
  \/ UnknownFormatSubmitRequests(Requests, Users)
  \/ FormatApproveRequests(Requests, FormatIds, Users)
  \/ ImageRequests(Requests, {NoId, 1}, Users)
  \/ DetachedLogs(AllCalls)

Spec == Init /\ [][Next]_vars

----------------------------------------------------------------------------
(* The DTR lifecycle alone, one request at a time *)

\* a body insertDtrSchema accepts and one it refuses
DtrSubmitBodies == {DtrBody(1, 610), RefusedDtrBody}

NextDtr ==
  \/ SubmitRequests(One, DtrSubmitBodies, {Anonymous},
                    NoCalls)
  \/ PatchRequests(One, DtrIds, PatchBodies, {Anonymous}, NoCalls)
  \/ ApproveRequests(One, DtrIds, {Anonymous}, NoCalls)
  \/ RejectRequests(One, DtrIds, {Anonymous}, NoCalls)
  \/ RevisionRequests(One, DtrIds, {NoBody}, {Anonymous}, NoCalls)
  \/ BulkApproveRequests(One, IdLists(1), {Anonymous}, NoCalls)
  \/ BulkRejectRequests(One, IdLists(1), {Anonymous}, NoCalls)

SpecDtr == Init /\ [][NextDtr]_vars

----------------------------------------------------------------------------
(* The payroll handlers over DTRs already on file *)

\* the document stored for a submitted body, in the status it has reached
StoredDtr(id, body, status) ==
  Merge(Document(dtrSchema, dtrData(body)), [id |-> id, status |-> status])

SeedDtrs ==
  {<<StoredDtr(1, DtrBody(1, 610), s1), StoredDtr(2, b2, "Approved")>> :
     s1 \in DtrStatuses,
     b2 \in {DtrBody(1, 610), DtrBody(1, 620), DtrBody(2, 610)}}

\* the server starts on a database that holds the two employees and two DTRs
InitPayroll ==
  /\ employees = SeedEmployees
  /\ dtrs \in SeedDtrs
  /\ payrolls = <<>>
  /\ activities = 0
  /\ resp = NoResponse
  /\ inflight = NoRequests
  /\ NothingElse
  /\ zone \in Zones

NextPayroll ==
  \/ ProcessDtrRequests(One, DtrIds, {Anonymous}, {"createPayroll"})
  \/ GenerateRequests(One, Periods, {Anonymous}, {"getAllDTRs"})
  \/ ProcessRequests(One, PayrollIds, {"updatePayroll"})
  \/ MarkPaidRequests(One, PayrollIds, {"updateDTR"})
  \/ PayrollSubmitRequests(One, PayrollBodies, {Anonymous}, NoCalls)

SpecPayroll == InitPayroll /\ [][NextPayroll]_vars

----------------------------------------------------------------------------
(* The bulk endpoints over DTRs already on file *)

SeedBulkDtrs ==
  {<<StoredDtr(1, DtrBody(1, 610), s1), StoredDtr(2, DtrBody(e2, 620), s2)>> :
     s1 \in {"Pending", "Approved"}, s2 \in {"Pending", "Approved"},
     e2 \in {MissingEmployee}}

InitBulk ==
  /\ employees = SeedEmployees
  /\ dtrs \in SeedBulkDtrs
  /\ payrolls = <<>>
  /\ activities = 0
  /\ resp = NoResponse
  /\ inflight = NoRequests
  /\ NothingElse
  /\ zone = "UTC"

\* the calls that reject on the items of a bulk request
BulkCalls == {"updateDTR", "createPayroll", "createActivity", "logSummary"}

NextBulk ==
  \/ BulkApproveRequests(One, IdLists(MaxBulk), Users, BulkCalls)
  \/ BulkRejectRequests(One, IdLists(MaxBulk), Users, BulkCalls)
  \/ BulkProcessRequests(One, IdLists(MaxBulk), Users, BulkCalls)

SpecBulk == InitBulk /\ [][NextBulk]_vars

----------------------------------------------------------------------------
(* Claims on the DTR lifecycle and the payroll handlers *)

\* request r takes a step of one of the handlers ops
Acts(r, ops) ==
  /\ inflight[r].pc # "idle"
  /\ inflight[r].op \in ops
  /\ inflight'[r] # inflight[r]

\* request r of one of the handlers ops resumes from its await of call pc
ActsAt(r, ops, pc) == Acts(r, ops) /\ inflight[r].pc = pc

\* the status of DTR i changes in this step
StatusChanges(i) == dtrs'[i].status # dtrs[i].status

\* DTR d belongs to the employee of payroll p and is dated within p's period,
\* which a payroll on file holds in periodStart and periodEnd
InPeriodOf(d, p) ==
  LET start == DateField(p, "periodStart")
      end == DateField(p, "periodEnd")
  IN  /\ d.employeeId = p.employeeId
      /\ ValidDate(start) /\ ValidDate(end) /\ ValidDate(d.date)
      /\ ToTime(start) <= ToTime(d.date)
      /\ ToTime(d.date) <= ToTime(end)

\* C1: through approve, reject, bulk approve and bulk reject, a DTR becomes
\* Approved or Rejected only from Pending; such a request on a DTR that is not
\* Pending leaves its status as it was.
C1_ApproveRejectOnlyFromPending ==
  [][\A r \in Requests :
       Acts(r, {"approve", "reject", "bulkApprove", "bulkReject"}) =>
         \A i \in 1..Len(dtrs) :
           (StatusChanges(i) /\ dtrs'[i].status \in {"Approved", "Rejected"})
             => dtrs[i].status = "Pending"]_vars

\* C2: per-DTR payroll processing moves a DTR to Processing, and creates a
\* payroll from it, only if the DTR was Approved when the request read it.
C2_ProcessOnlyFromApproved ==
  [][\A r \in Requests :
       Acts(r, {"processDtr", "bulkProcess"}) =>
         /\ \A i \in 1..Len(dtrs) :
              (StatusChanges(i) /\ dtrs'[i].status = "Processing")
                => /\ Has(inflight[r], "dtr")
                   /\ inflight[r].dtr.id = i
                   /\ inflight[r].dtr.status = "Approved"
         /\ Len(payrolls') > Len(payrolls)
              => /\ Has(inflight[r], "dtr")
                 /\ inflight[r].dtr.status = "Approved"]_vars

\* no two payrolls of ps are for the same employee, period start and period end
NoDuplicatePayroll(ps) ==
  \A i, j \in 1..Len(ps) :
    (/\ i < j
     /\ ps[i].employeeId = ps[j].employeeId
     /\ PeriodStartOf(ps[i]) = PeriodStartOf(ps[j])
     /\ PeriodEndOf(ps[i]) = PeriodEndOf(ps[j])) => FALSE

\* C3: POST /api/payrolls/generate never adds a second payroll for an
\* employee and period that already has one.
C3_GenerateNoDuplicate ==
  [][\A r \in Requests :
       (Acts(r, {"generate"}) /\ NoDuplicatePayroll(payrolls))
         => NoDuplicatePayroll(payrolls')]_vars

\* C4: a bulk response satisfies processed + errors.length = total.
C4_BulkCountsAddUp ==
  (resp.op \in {"bulkApprove", "bulkReject", "bulkProcess"} /\ resp.code = 200)
    => resp.processed + Len(resp.errors) = resp.total

\* bulk process-payroll answered for two ids: the first, an Approved DTR of an
\* employee on file, went to errors through the catch block when
\* createPayroll rejected, the second was refused; nothing is in results
C4_Witness ==
  /\ resp.op = "bulkProcess" /\ resp.code = 200
  /\ resp.total = 2
  /\ resp.processed = 0
  /\ Len(resp.errors) = 2
  /\ resp.errors[1] = Failed(1)
  /\ resp.errors[2].message # "Failed to process"
  /\ dtrs[1].status = "Approved"

\* C5: after mark-paid succeeds the payroll is Paid and every DTR of its
\* employee dated within its period is Paid.
C5_MarkPaidPaysPeriodDtrs ==
  (resp.op = "markPaid" /\ resp.code = 200) =>
    /\ payrolls[resp.id].status = "Paid"
    /\ \A i \in 1..Len(dtrs) :
         InPeriodOf(dtrs[i], payrolls[resp.id]) => dtrs[i].status = "Paid"

\* mark-paid has succeeded on a payroll whose period holds two DTRs of its
\* employee
C5_Witness ==
  /\ resp.op = "markPaid"
  /\ resp.code = 200
  /\ Cardinality({i \in 1..Len(dtrs) :
                    InPeriodOf(dtrs[i], payrolls[resp.id])}) = 2

\* C6: when a payroll is marked Processed, exactly the Processing DTRs of its
\* employee within its period become Processed: the request changes the
\* status of no other DTR, and when it answers 200 none of those DTRs is left
\* in Processing.
C6_ProcessAdvancesProcessingDtrs ==
  [][\A r \in Requests :
       Acts(r, {"processPayroll"}) =>
         /\ \A i \in 1..Len(dtrs) :
              StatusChanges(i) =>
                /\ dtrs[i].status = "Processing"
                /\ dtrs'[i].status = "Processed"
                /\ InPeriodOf(dtrs[i], payrolls[inflight[r].id])
         /\ resp'.code = 200 =>
              \A i \in 1..Len(dtrs') :
                InPeriodOf(dtrs'[i], payrolls'[inflight[r].id])
                  => dtrs'[i].status # "Processing"]_vars

\* the edges of the DTR status machine
StatusEdges ==
  {<<"Pending", "Approved">>, <<"Pending", "Rejected">>,
   <<"Rejected", "Pending">>, <<"Approved", "Processing">>,
   <<"Processing", "Processed">>, <<"Processed", "Paid">>}

\* C7: every change of a DTR's status follows an edge of the status machine.
C7_StatusFollowsEdges ==
  [][\A i \in 1..Len(dtrs) :
       StatusChanges(i) => <<dtrs[i].status, dtrs'[i].status>> \in StatusEdges]_vars

----------------------------------------------------------------------------
(* Worked hours of submitted DTRs *)

HourBody(timeIn, timeOut) ==
  [employeeId |-> 1, date |-> 610, timeIn |-> timeIn, timeOut |-> timeOut,
   type |-> "Daily", status |-> "Pending", submissionDate |-> 610]

\* bodies with and without breakHours, and with a regularHours of their own
HourBodies ==
  {Merge(Merge(HourBody(timeIn, timeOut), break), own) :
     timeIn \in {800, 2200}, timeOut \in {1700, 815, 600},
     break \in {<<>>} \cup {[breakHours |-> b] :
                              b \in {RZero, RInt(1), Rat(1, 2)}},
     own \in {<<>>, [regularHours |-> RInt(99)]}}

NextHours == SubmitRequests(One, HourBodies, {Anonymous}, {"createDTR"})

SpecHours == Init /\ [][NextHours]_vars

\* (timeOut - timeIn) - breakHours of a body or of a stored DTR, in units of
\* 1/(60 * bd) hours, bd the denominator of its breakHours (1 hour when it
\* has none)
WorkedNumerator(d) ==
  LET b == IF Has(d, "breakHours") THEN d.breakHours ELSE RInt(1)
  IN  (MinutesOf(d.timeOut) - MinutesOf(d.timeIn)) * b.d - 60 * b.n

WorkedDenominator(d) ==
  60 * (IF Has(d, "breakHours") THEN d.breakHours.d ELSE 1)

\* C8: the regularHours stored by POST /api/dtrs is
\* max(0, (timeOut - timeIn) - breakHours), never negative, and 8 for
\* 08:00 to 17:00 with a break of 1.
C8_RegularHoursComputed ==
  [][\A r \in Requests :
       (ActsAt(r, {"postDtr"}, "createDTR") /\ Len(dtrs') > Len(dtrs)) =>
         LET body == inflight[r].body
             d == dtrs'[Len(dtrs')]
         IN  /\ Len(dtrs') = Len(dtrs) + 1
             /\ d.timeIn = body.timeIn /\ d.timeOut = body.timeOut
             /\ d.regularHours.n >= 0 /\ d.regularHours.d > 0
             /\ IF WorkedNumerator(body) <= 0
                THEN d.regularHours.n = 0
                ELSE d.regularHours.n * WorkedDenominator(body)
                       = WorkedNumerator(body) * d.regularHours.d
             /\ (body.timeIn = 800 /\ body.timeOut = 1700
                   /\ (Has(body, "breakHours") => body.breakHours = RInt(1)))
                  => d.regularHours = RInt(8)]_vars

\* a DTR from 08:00 to 17:00 submitted without breakHours (its 8 hours are
\* those of a break of 1, the break on file is the 0 of the model's default)
\* and one whose timeOut is before its timeIn are both on file
C8_Witness ==
  /\ \E i \in 1..Len(dtrs) :
       /\ dtrs[i].timeIn = 800 /\ dtrs[i].timeOut = 1700
       /\ dtrs[i].breakHours = RZero
       /\ dtrs[i].regularHours = RInt(8)
  /\ \E i \in 1..Len(dtrs) :
       /\ MinutesOf(dtrs[i].timeOut) < MinutesOf(dtrs[i].timeIn)
       /\ dtrs[i].regularHours = RZero

----------------------------------------------------------------------------
(* Pay computed by POST /api/payrolls/generate *)

\* the employees on file: a Regular employee on a monthly salary and an
\* employee of another type on an hourly rate
PayEmployees ==
  {<<Merge(SeedEmployees[1], [salary |-> RInt(monthly)]),
     Merge(SeedEmployees[2], [employeeType |-> hourlyType])>> :
     monthly \in {20000, 31000}, hourlyType \in {"Contract", "Project-based"}}

\* a full day without overtime and a short day with an hour and a half of it,
\* dated 2023-06-10 or "2023-02-30", which new Date reads as the 2nd of March
PayBodies ==
  {[employeeId |-> e, date |-> date, timeIn |-> 800, timeOut |-> 1700,
    breakHours |-> RInt(1), type |-> "Daily", status |-> status,
    submissionDate |-> date] :
     e \in {1, 2}, date \in {610, 230}, status \in {"Approved", "Pending"}}
  \cup
  {[employeeId |-> e, date |-> date, timeIn |-> 900, timeOut |-> 1230,
    overtimeHours |-> Rat(3, 2), type |-> "Daily", status |-> status,
    submissionDate |-> date] :
     e \in {1, 2}, date \in {610, 230}, status \in {"Approved", "Pending"}}

\* half of June, and a period from February into March
PayPeriods == {<<601, 615>>, <<215, 305>>}

InitPay ==
  /\ employees \in PayEmployees
  /\ dtrs = <<>>
  /\ payrolls = <<>>
  /\ activities = 0
  /\ resp = NoResponse
  /\ inflight = NoRequests
  /\ NothingElse
  /\ zone \in Zones

NextPay ==
  \/ SubmitRequests(One, PayBodies, {Anonymous}, NoCalls)
  \/ GenerateRequests(One, PayPeriods, {Anonymous}, {"createPayroll"})

SpecPay == InitPay /\ [][NextPay]_vars

\* the sum of field f (0 where a DTR has none) over the Approved DTRs of
\* employee e dated within [from, to], from the i-th DTR on
RECURSIVE ApprovedTotal(_, _, _, _, _)
ApprovedTotal(f, e, from, to, i) ==
  IF i > Len(dtrs) THEN RZero
  ELSE
    LET d == dtrs[i]
        counted == /\ d.employeeId = e /\ d.status = "Approved"
                   /\ ToTime(d.date) >= ToTime(from)
                   /\ ToTime(d.date) <= ToTime(to)
    IN  RAdd(IF counted /\ Has(d, f) THEN d[f] ELSE RZero,
             ApprovedTotal(f, e, from, to, i + 1))

\* the payrolls the last generate request answered with
GeneratedNow ==
  IF resp.op = "generate" /\ resp.code = 200
  THEN {payrolls[resp.payrolls[k]] : k \in 1..Len(resp.payrolls)}
  ELSE {}

\* the grossPay of a payroll on file, which keeps its two parts: basicPay,
\* the regularPay of the handler, and overtimePay
GrossPayOf(p) == RAdd(p.basicPay, p.overtimePay)

\* C9: a payroll generated for a Regular employee has
\* regularPay = salary * daysInPeriod / daysInMonth (the period counted
\* inclusively, the month that of periodStart),
\* overtimePay = totalOvertimeHours * (salary / daysInMonth / 8) * 1.25,
\* grossPay their sum and a single deduction of 10% of grossPay; a salary of
\* 20000 over 15 of 30 days without overtime gives 10000, 1000 and 9000.
C9_RegularPayFormula ==
  \A p \in GeneratedNow :
    LET e == employees[p.employeeId]
        daysInPeriod == ToTime(p.periodEnd) - ToTime(p.periodStart) + 1
        days == DaysInMonthOf(MonthField(p.periodStart))
        overtime == ApprovedTotal("overtimeHours", e.id, p.periodStart,
                                  p.periodEnd, 1)
    IN  e.employeeType = "Regular" =>
          /\ p.basicPay = RMul(e.salary, Rat(daysInPeriod, days))
          /\ p.overtimePay =
               RMul(RMul(overtime, RDivInt(RDivInt(e.salary, days), 8)),
                    Rat(5, 4))
          /\ Len(p.deductions) = 1
          /\ p.deductions[1].amount = RDivInt(GrossPayOf(p), 10)
          /\ p.netPay = RSub(GrossPayOf(p), p.deductions[1].amount)
          /\ (e.salary = RInt(20000) /\ daysInPeriod = 15 /\ days = 30
                /\ overtime = RZero)
               => /\ GrossPayOf(p) = RInt(10000)
                  /\ p.deductions[1].amount = RInt(1000)
                  /\ p.netPay = RInt(9000)

\* C10: a payroll generated for an employee who is not Regular has
\* regularPay = totalRegularHours * salary and
\* overtimePay = totalOvertimeHours * salary * 1.25, the totals summed over
\* the employee's Approved DTRs dated within the period.
C10_HourlyPayFormula ==
  \A p \in GeneratedNow :
    LET e == employees[p.employeeId]
        regular == ApprovedTotal("regularHours", e.id, p.periodStart,
                                 p.periodEnd, 1)
        overtime == ApprovedTotal("overtimeHours", e.id, p.periodStart,
                                  p.periodEnd, 1)
    IN  e.employeeType # "Regular" =>
          /\ p.basicPay = RMul(regular, e.salary)
          /\ p.overtimePay = RMul(RMul(overtime, e.salary), Rat(5, 4))

\* generate answered with the payroll of an hourly employee who worked
\* overtime on a day dated "2023-02-30", while a Pending DTR of theirs in the
\* period was left out
C10_Witness ==
  \E p \in GeneratedNow :
    /\ employees[p.employeeId].employeeType # "Regular"
    /\ p.overtimePay.n > 0
    /\ p.periodEnd = 305
    /\ \E i \in 1..Len(dtrs) :
         /\ dtrs[i].employeeId = p.employeeId
         /\ dtrs[i].status = "Pending"
         /\ ToTime(dtrs[i].date) >= ToTime(p.periodStart)
         /\ ToTime(dtrs[i].date) <= ToTime(p.periodEnd)

----------------------------------------------------------------------------
(* Pay computed by per-DTR payroll processing *)

\* a full day in June without overtime, a short day with overtime, and the
\* short day still Pending
DtrPayBodies ==
  {b \in PayBodies :
     \/ b.status = "Approved" /\ b.date = 610 /\ ~Has(b, "overtimeHours")
     \/ b.date = 230 /\ Has(b, "overtimeHours")}

NextDtrPay ==
  \/ SubmitRequests(One, DtrPayBodies, {Anonymous}, NoCalls)
  \/ ProcessDtrRequests(Requests, DtrIds, {Anonymous}, NoCalls)
  \/ BulkProcessRequests(Requests, IdLists(1), {Anonymous}, NoCalls)

SpecDtrPay == InitPay /\ [][NextDtrPay]_vars

\* the payrollData p pays DTR d of employee e by the per-DTR rule,
\* totalDeductions being num/den of grossPay
PaysDtr(p, d, e, num, den) ==
  LET overtime == IF Has(d, "overtimeHours") THEN d.overtimeHours ELSE RZero
      gross == RAdd(RMul(d.regularHours, e.salary),
                    RMul(RMul(overtime, e.salary), Rat(3, 2)))
  IN  /\ p.grossPay = gross
      /\ p.totalDeductions = RMul(gross, Rat(num, den))
      /\ p.netPay = RSub(p.grossPay, p.totalDeductions)
      /\ p.payPeriodStart = d.date
      /\ p.payPeriodEnd = d.date

----------------------------------------------------------------------------
(* Claims on the bulk endpoints *)

\* id is named by an entry of list, a sequence of records with an id
Names(list, id) == \E k \in 1..Len(list) : list[k].id = id

\* the id the loop of bulk request q is at
ItemOf(q) == q.ids[q.i]

\* the awaits of a bulk transition that follow the test of the status
PastGuard == {"updateDTR", "getEmployee", "logActivity"}

\* C12: in bulk approve and bulk reject every listed id whose DTR is missing
\* or not Pending goes to errors and not to results and its record is left as
\* it was; every listed id whose DTR is Pending goes to results with the new
\* status, and not to errors.
C12_BulkTransitionSorts ==
  [][\A r \in Requests :
       Acts(r, {"bulkApprove", "bulkReject"}) =>
         LET q == inflight[r]
             id == ItemOf(q)
         IN  /\ (q.pc = "getDTR"
                   /\ ~(Exists(dtrs, id) /\ dtrs[id].status = "Pending")) =>
                  /\ inflight'[r].errors # q.errors
                  /\ Names(inflight'[r].errors, id)
                  /\ inflight'[r].results = q.results
                  /\ dtrs' = dtrs
             /\ q.pc \in PastGuard => inflight'[r].errors = q.errors
             /\ q.pc = "logActivity" =>
                  inflight'[r].results =
                    Append(q.results,
                           [id |-> id, status |-> BulkStatus(q.op)])]_vars

\* C13: in bulk process-payroll every listed id whose DTR is missing or not
\* Approved, or whose employee is missing, yields exactly one error entry and
\* no payroll, and the request creates as many payrolls as results has
\* entries.
C13_BulkProcessErrors ==
  [][\A r \in Requests :
       Acts(r, {"bulkProcess"}) =>
         LET q == inflight[r]
             id == ItemOf(q)
             refused ==
               \/ q.pc = "getDTR"
                    /\ ~(Exists(dtrs, id) /\ dtrs[id].status = "Approved")
               \/ q.pc = "getEmployee"
                    /\ ~Exists(employees, q.dtr.employeeId)
         IN  /\ q.pc = "logSummary" => payrolls' = payrolls
             /\ q.pc # "logSummary" =>
                  Len(payrolls') - Len(payrolls)
                    = Len(inflight'[r].results) - Len(q.results)
             /\ refused =>
                  /\ Len(inflight'[r].errors) = Len(q.errors) + 1
                  /\ inflight'[r].errors[Len(q.errors) + 1].id = id
                  /\ payrolls' = payrolls
                  /\ inflight'[r].pc \in {"getDTR", "logSummary"}]_vars

\* bulk process-payroll answered for two ids: the first was refused because
\* its DTR is not Approved, the second because its employee is missing;
\* results is empty and no payroll is on file
C13_Witness ==
  /\ resp.op = "bulkProcess" /\ resp.code = 200
  /\ resp.total = 2
  /\ Len(resp.results) = 0
  /\ Len(payrolls) = 0
  /\ Len(resp.errors) = 2
  /\ resp.errors[1].message =
       "DTR must be in Approved status to process payroll"
  /\ resp.errors[2].message = "Employee not found"

----------------------------------------------------------------------------
(* Bulk requests whose items fail while the summary is logged *)

\* the calls that reject on an item of a bulk request
ItemCalls == {"updateDTR", "createPayroll", "createActivity"}

NextBatch ==
  \/ BulkApproveRequests(One, IdLists(MaxBulk), Users, ItemCalls)
  \/ BulkRejectRequests(One, IdLists(MaxBulk), Users, ItemCalls)
  \/ BulkProcessRequests(One, IdLists(MaxBulk), Users, ItemCalls)

SpecBatch == InitBulk /\ [][NextBatch]_vars

\* the ids that list names, in the order of list, are ids in its order with
\* some left out
InListOrder(list, ids) ==
  \E f \in [1..Len(list) -> 1..Len(ids)] :
    /\ \A k \in 1..Len(list) : ids[f[k]] = list[k]
    /\ \A k \in 1..(Len(list) - 1) : f[k] < f[k + 1]

\* the DTR ids of the entries of a list of a bulk response
IdsOf(list) == [k \in 1..Len(list) |-> list[k].id]

\* C14: an item that fails does not end the batch: the loop goes on to the
\* id listed next, and the call answers 200 with both lists, every listed id
\* in one of them, in list order, every id in the results of a bulk approve
\* or reject being written.  A result of bulk process-payroll is the payroll
\* on file, which does not name its DTR: there the two lists hold as many
\* entries as ids are listed.
C14_BatchNotAborted ==
  [][/\ \A r \in Requests :
          (Acts(r, {"bulkApprove", "bulkReject", "bulkProcess"})
             /\ inflight[r].pc # "logSummary"
             /\ inflight'[r].errors # inflight[r].errors) =>
            IF inflight[r].i < Len(inflight[r].ids)
            THEN /\ inflight'[r].pc = "getDTR"
                 /\ inflight'[r].i = inflight[r].i + 1
            ELSE inflight'[r].pc = "logSummary"
     /\ (resp'.op \in {"bulkApprove", "bulkReject", "bulkProcess"}
           /\ resp'.code # 400) =>
          /\ resp'.code = 200
          /\ resp'.total = Len(resp'.dtrIds)
          /\ InListOrder(IdsOf(resp'.errors), resp'.dtrIds)
          /\ resp'.op = "bulkProcess" =>
               Len(resp'.errors) + Len(resp'.results) = resp'.total
          /\ resp'.op # "bulkProcess" =>
               /\ InListOrder(IdsOf(resp'.results), resp'.dtrIds)
               /\ \A k \in 1..Len(resp'.dtrIds) :
                    LET id == resp'.dtrIds[k] IN
                      \/ \E n \in 1..Len(resp'.errors) :
                           resp'.errors[n].id = id
                      \/ \E n \in 1..Len(resp'.results) :
                           resp'.results[n].id = id
               /\ \A n \in 1..Len(resp'.results) :
                    dtrs'[resp'.results[n].id].status
                      = BulkStatus(resp'.op)]_vars

\* the first listed item went to errors and the second, a Pending DTR, was
\* still approved
C14_Witness ==
  /\ resp.op = "bulkApprove" /\ resp.code = 200
  /\ resp.total = 2
  /\ Len(resp.errors) = 1 /\ resp.errors[1].id = resp.dtrIds[1]
  /\ Len(resp.results) = 1 /\ resp.results[1].id = resp.dtrIds[2]
  /\ dtrs[resp.dtrIds[2]].status = "Approved"

----------------------------------------------------------------------------
(* Claims on activity logging *)

\* two Approved DTRs of employee 1 in the first half of June
ApprovedDtrs ==
  <<StoredDtr(1, DtrBody(1, 610), "Approved"),
    StoredDtr(2, DtrBody(1, 612), "Approved")>>

InitLogged ==
  /\ employees = SeedEmployees
  /\ dtrs = ApprovedDtrs
  /\ payrolls = <<>>
  /\ activities = 0
  /\ resp = NoResponse
  /\ inflight = NoRequests
  /\ NothingElse
  /\ zone = "UTC"

\* the body of PATCH /api/employees/:id and of PATCH /api/companies/:id
\* where the activities are counted
LoggedPatchBodies == {[status |-> "Inactive"]}

\* the transitions of a DTR and the other requests that write to the
\* activity log, asked by a user who is logged in; no call rejects but the
\* createActivity nobody awaits
NextLogged ==
  \/ RejectRequests(One, DtrIds, {"admin"}, NoCalls)
  \/ RevisionRequests(One, DtrIds, {NoBody}, {"admin"}, NoCalls)
  \/ ProcessDtrRequests(One, DtrIds, {"admin"}, NoCalls)
  \/ GenerateRequests(One, Periods, {"admin"}, NoCalls)
  \/ ProcessRequests(One, PayrollIds, NoCalls)
  \/ MarkPaidRequests(One, PayrollIds, NoCalls)
  \/ CompanySubmitRequests(One, CompanyBodies, {"admin"}, NoCalls)
  \/ CompanyPatchRequests(One, CompanyIds, LoggedPatchBodies, {"admin"},
                          NoCalls)
  \/ CompanyActivateRequests(One, CompanyIds, {"admin"}, NoCalls)
  \/ CompanyDeactivateRequests(One, CompanyIds, {"admin"}, NoCalls)
  \/ FormatSubmitRequests(One, {"admin"})
  \/ UnknownFormatSubmitRequests(One, {"admin"})
  \/ FormatApproveRequests(One, FormatIds, {"admin"})
  \/ ImageRequests(One, {NoId, 1}, {"admin"})
  \/ EmployeePatchRequests(One, {2}, LoggedPatchBodies, {"admin"}, NoCalls)
  \/ ActivateRequests(One, {2}, {"admin"}, NoCalls)
  \/ DeactivateRequests(One, {2}, {"admin"}, NoCalls)
  \/ DetachedLogs({"createActivity"})

SpecLogged == InitLogged /\ [][NextLogged]_vars

\* C15: every change of a DTR's status appends an activity: once every
\* request is answered there are at least as many activities as DTRs whose
\* status is no longer the one they were filed with.
C15_TransitionsAreLogged ==
  (\A r \in Requests : inflight[r].pc = "idle") =>
    activities >= Cardinality({i \in 1..Len(dtrs) :
                                 dtrs[i].status # ApprovedDtrs[i].status})

\* the requests that log an activity, where no call rejects but
\* createActivity
LogCalls == {"createActivity", "logSummary"}

\* the body submitted where logging may fail
LogBodies == {DtrBody(1, 610)}

NextLogFail ==
  \/ SubmitRequests(One, LogBodies, Users, LogCalls)
  \/ ApproveRequests(One, DtrIds, Users, LogCalls)
  \/ RejectRequests(One, DtrIds, Users, LogCalls)
  \/ RevisionRequests(One, DtrIds, {NoBody}, Users, LogCalls)
  \/ ProcessDtrRequests(One, DtrIds, Users, LogCalls)
  \/ BulkApproveRequests(One, IdLists(1), Users, LogCalls)
  \/ BulkProcessRequests(One, IdLists(1), Users, LogCalls)

SpecLogFail == Init /\ [][NextLogFail]_vars

\* C16: a failure of activity logging is not surfaced: a request that awaits
\* logActivity answers with its success status, a bulk request does not move
\* the item it has written to errors, and answers 200 after the summary.
C16_LogFailureNotSurfaced ==
  [][\A r \in Requests :
       /\ ActsAt(r, {"postDtr"}, "logActivity") => resp'.code = 201
       /\ ActsAt(r, {"approve", "reject", "requestRevision", "processDtr"},
                 "logActivity") => resp'.code = 200
       /\ ActsAt(r, {"bulkApprove", "bulkProcess"}, "logActivity") =>
            inflight'[r].errors = inflight[r].errors
       /\ ActsAt(r, {"bulkApprove", "bulkProcess"}, "logSummary") =>
            resp'.code = 200]_vars

----------------------------------------------------------------------------
(* Worked hours under later updates *)

\* bodies of PATCH /api/dtrs/:id that touch the hours
HourPatchBodies ==
  {[timeOut |-> 1800], [breakHours |-> RInt(2)], [regularHours |-> RInt(99)],
   [status |-> "Approved"]}

\* a day shift, a night shift and a body with a regularHours of its own
HourSubmitBodies ==
  {HourBody(800, 1700), HourBody(2200, 600),
   Merge(HourBody(800, 1700), [regularHours |-> RInt(99)])}

NextHoursPatch ==
  \/ SubmitRequests(One, HourSubmitBodies, {Anonymous}, NoCalls)
  \/ PatchRequests(One, DtrIds, HourPatchBodies, {Anonymous}, {"updateDTR"})

SpecHoursPatch == Init /\ [][NextHoursPatch]_vars

\* C17: in every state the regularHours of each stored DTR is the value
\* computed from its own timeIn, timeOut and breakHours.
C17_RegularHoursConsistent ==
  \A i \in 1..Len(dtrs) :
    IF WorkedNumerator(dtrs[i]) <= 0
    THEN dtrs[i].regularHours = RZero
    ELSE dtrs[i].regularHours
           = Rat(WorkedNumerator(dtrs[i]), WorkedDenominator(dtrs[i]))

----------------------------------------------------------------------------
(* Two bulk requests served at the same time *)

\* two DTRs on file, the first Pending
InitRace ==
  /\ employees = SeedEmployees
  /\ dtrs \in {<<StoredDtr(1, DtrBody(1, 610), "Pending"),
                 StoredDtr(2, DtrBody(2, 610), s2)>> :
                 s2 \in {"Pending", "Approved"}}
  /\ payrolls = <<>>
  /\ activities = 0
  /\ resp = NoResponse
  /\ inflight = NoRequests
  /\ NothingElse
  /\ zone = "UTC"

NextRace ==
  \/ BulkApproveRequests(Requests, IdLists(MaxBulk), {Anonymous}, NoCalls)
  \/ BulkRejectRequests(Requests, IdLists(MaxBulk), {Anonymous}, NoCalls)

SpecRace == InitRace /\ [][NextRace]_vars

\* C18: nothing detects a second writer: a request that passed the Pending
\* guard writes its status whatever the DTR's status has become, and then
\* reports the DTR in results; a DTR's status changes in no other way, so the
\* last write stays.
C18_LastWriteWins ==
  [][/\ \A r \in Requests :
          LET q == inflight[r] IN
            /\ ActsAt(r, {"bulkApprove", "bulkReject"}, "updateDTR") =>
                 dtrs'[ItemOf(q)].status = BulkStatus(q.op)
            /\ ActsAt(r, {"bulkApprove", "bulkReject"}, "logActivity") =>
                 /\ inflight'[r].results =
                      Append(q.results, [id |-> ItemOf(q),
                                         status |-> BulkStatus(q.op)])
                 /\ inflight'[r].errors = q.errors
     /\ \A i \in 1..Len(dtrs) :
          StatusChanges(i) =>
            \E r \in Requests :
              /\ ActsAt(r, {"bulkApprove", "bulkReject"}, "updateDTR")
              /\ ItemOf(inflight[r]) = i]_vars

\* a bulk reject has answered 200 with DTR 1 in results while a bulk approve
\* served at the same time has DTR 1 in its results too, and DTR 1 is
\* Approved: the approve wrote last
C18_Witness ==
  /\ resp.op = "bulkReject" /\ resp.code = 200
  /\ Names(resp.results, 1)
  /\ \E r \in Requests :
       /\ inflight[r].pc = "logSummary"
       /\ inflight[r].op = "bulkApprove"
       /\ Names(inflight[r].results, 1)
  /\ dtrs[1].status = "Approved"

----------------------------------------------------------------------------
(* The amounts of a payroll, for any overtimeHours insertDtrSchema lets in *)

\* overtimeHours is z.number(): a body with negative overtime is accepted
SignedPayBodies ==
  {[employeeId |-> e, date |-> 610, timeIn |-> 800, timeOut |-> 1700,
    breakHours |-> RInt(1), overtimeHours |-> overtime, type |-> "Daily",
    status |-> "Approved", submissionDate |-> 610] :
     e \in {1, 2}, overtime \in {Rat(3, 2), RInt(-10)}}

\* a Regular employee on a monthly salary and a Contract employee on an hourly
\* rate, no DTR and no payroll
InitAmounts ==
  /\ employees = SeedEmployees
  /\ dtrs = <<>>
  /\ payrolls = <<>>
  /\ activities = 0
  /\ resp = NoResponse
  /\ inflight = NoRequests
  /\ NothingElse
  /\ zone = "UTC"

NextAmounts ==
  \/ SubmitRequests(One, SignedPayBodies, {Anonymous}, NoCalls)
  \/ ProcessDtrRequests(One, DtrIds, {Anonymous}, NoCalls)
  \/ BulkProcessRequests(One, IdLists(1), {Anonymous}, NoCalls)
  \/ GenerateRequests(One, PayPeriods, {Anonymous}, NoCalls)
  \/ ProcessRequests(One, PayrollIds, NoCalls)
  \/ MarkPaidRequests(One, PayrollIds, NoCalls)

SpecAmounts == InitAmounts /\ [][NextAmounts]_vars

\* the deductions of a payroll on file, summed from the k-th on
RECURSIVE TotalDeductionsOf(_, _)
TotalDeductionsOf(p, k) ==
  IF k > Len(p.deductions) THEN RZero
  ELSE RAdd(p.deductions[k].amount, TotalDeductionsOf(p, k + 1))

\* the three amounts of payroll p: grossPay, totalDeductions and netPay
Amounts(p) == <<GrossPayOf(p), TotalDeductionsOf(p, 1), p.netPay>>

\* C19: every payroll a handler creates has
\* netPay = grossPay - totalDeductions, totalDeductions >= 0 and
\* netPay <= grossPay; payroll process and mark-paid leave the three amounts
\* of every payroll unchanged.
C19_PayrollAmounts ==
  [][\A r \in Requests :
       /\ Acts(r, {"processDtr", "bulkProcess", "generate"}) =>
            \A k \in (Len(payrolls) + 1)..Len(payrolls') :
              LET p == payrolls'[k] IN
                /\ p.netPay = RSub(GrossPayOf(p), TotalDeductionsOf(p, 1))
                /\ RLeq(RZero, TotalDeductionsOf(p, 1))
                /\ RLeq(p.netPay, GrossPayOf(p))
       /\ Acts(r, {"processPayroll", "markPaid"}) =>
            /\ Len(payrolls') = Len(payrolls)
            /\ \A k \in 1..Len(payrolls) :
                 Amounts(payrolls'[k]) = Amounts(payrolls[k])]_vars

----------------------------------------------------------------------------
(* Status transitions that name no document *)

NextNotFound ==
  \/ ApproveRequests(One, DtrIds, Users, NoCalls)
  \/ RejectRequests(One, DtrIds, {Anonymous}, NoCalls)
  \/ RevisionRequests(One, DtrIds, {NoBody}, {Anonymous}, NoCalls)
  \/ ProcessDtrRequests(One, DtrIds, {Anonymous}, NoCalls)
  \/ GenerateRequests(One, Periods, {Anonymous}, NoCalls)
  \/ ProcessRequests(One, PayrollIds, NoCalls)
  \/ MarkPaidRequests(One, PayrollIds, NoCalls)

\* over DTRs already on file
SpecNotFound == InitBulk /\ [][NextNotFound]_vars

\* the transitions of a DTR and of a payroll, by the name of their handler
DtrTransitions == {"approve", "reject", "requestRevision", "processDtr"}
PayrollTransitions == {"processPayroll", "markPaid"}

\* request r resumes from the read of a document that is not on file
NamesMissing(r) ==
  \/ /\ ActsAt(r, DtrTransitions, "getDTR")
     /\ ~Exists(dtrs, inflight[r].id)
  \/ /\ ActsAt(r, PayrollTransitions, "getPayroll")
     /\ ~Exists(payrolls, inflight[r].id)

\* a transition arrives in slot r
TransitionArrives(r) ==
  /\ inflight[r].pc = "idle"
  /\ inflight'[r].pc # "idle"
  /\ inflight'[r].op \in DtrTransitions \cup PayrollTransitions

\* C20: approve, reject, request-revision and per-DTR processing of a DTR
\* that does not exist, and payroll process and mark-paid of a payroll that
\* does not exist, answer 404 and change no DTR, payroll or activity.
C20_MissingIsNotFound ==
  [][\A r \in Requests :
       /\ TransitionArrives(r) => UNCHANGED <<dtrs, payrolls, activities>>
       /\ NamesMissing(r) =>
            /\ resp'.code = 404
            /\ inflight'[r] = Idle
            /\ UNCHANGED <<dtrs, payrolls, activities>>]_vars

\* with a DTR, a payroll and an activity on file, an approve naming a DTR
\* that does not exist was answered 404
C20_Witness ==
  /\ resp.op = "approve" /\ resp.code = 404
  /\ ~Exists(dtrs, resp.id)
  /\ Len(dtrs) > 0 /\ Len(payrolls) > 0 /\ activities > 0

----------------------------------------------------------------------------
(* Two generate requests served at the same time *)

\* half of June and the whole of it
RacePeriods == {<<601, 615>>, <<601, 630>>}

NextGenerateRace == GenerateRequests(Requests, RacePeriods, {Anonymous}, NoCalls)

SpecGenerateRace == InitPayroll /\ [][NextGenerateRace]_vars

\* C21: two POST /api/payrolls/generate requests for the same period that
\* interleave at their awaited storage calls leave no two payrolls for the
\* same employee and period.
C21_InterleavedGenerateNoDuplicate ==
  (/\ \A r \in Requests : Serving(r, "generate")
   /\ inflight["a"].periodStart = inflight["b"].periodStart
   /\ inflight["a"].periodEnd = inflight["b"].periodEnd)
    => NoDuplicatePayroll(payrolls)

----------------------------------------------------------------------------
(* Requests for revision *)

\* bodies of PATCH /api/dtrs/:id/request-revision: no remarks, empty remarks
\* and a note
RevisionBodies == {NoBody, [remarks |-> <<>>], [remarks |-> <<"Fix timeOut">>]}

\* a DTR submitted without remarks and one submitted with a note
RevisionSubmitBodies ==
  {DtrBody(1, 610), Merge(DtrBody(2, 620), [remarks |-> <<"Half day">>])}

NextRevision ==
  \/ SubmitRequests(One, RevisionSubmitBodies, {Anonymous}, NoCalls)
  \/ ApproveRequests(One, DtrIds, {Anonymous}, NoCalls)
  \/ RejectRequests(One, DtrIds, {Anonymous}, NoCalls)
  \/ RevisionRequests(One, DtrIds, RevisionBodies, Users, NoCalls)

SpecRevision == Init /\ [][NextRevision]_vars

\* the remarks supplied by body, "Needs revision" when it supplies none
SuppliedRemarks(body) ==
  IF Has(body, "remarks") /\ Len(body.remarks) > 0 THEN body.remarks
  ELSE <<"Needs revision">>

\* the fields of DTR i other than fs are the same before and after the step
KeepsFieldsBut(i, fs) ==
  /\ DOMAIN dtrs'[i] \ fs = DOMAIN dtrs[i] \ fs
  /\ \A f \in DOMAIN dtrs[i] \ fs : dtrs'[i][f] = dtrs[i][f]

\* C22: request-revision on an existing DTR sets status to Pending and
\* remarks to the supplied remarks ("Needs revision" by default), appended to
\* the previous remarks with " | " when there are any, and leaves every other
\* field of the DTR unchanged; it changes no other DTR.
C22_RevisionSetsStatusAndRemarks ==
  [][\A r \in Requests :
       /\ (Acts(r, {"requestRevision"}) /\ inflight[r].pc # "updateDTR")
            => dtrs' = dtrs
       /\ ActsAt(r, {"requestRevision"}, "updateDTR") =>
            LET id == inflight[r].id
                body == inflight[r].body
            IN  /\ dtrs'[id].status = "Pending"
                /\ dtrs'[id].remarks =
                     IF Has(dtrs[id], "remarks") /\ Len(dtrs[id].remarks) > 0
                     THEN dtrs[id].remarks \o <<" | ">> \o SuppliedRemarks(body)
                     ELSE SuppliedRemarks(body)
                /\ KeepsFieldsBut(id, {"status", "remarks"})
                /\ \A i \in 1..Len(dtrs) : i # id => dtrs'[i] = dtrs[i]]_vars

\* a revision was requested of a DTR that had been approved and already had
\* remarks
C22_Witness ==
  /\ resp.op = "requestRevision" /\ resp.code = 200
  /\ Has(dtrs[resp.id], "approvalDate")
  /\ Len(dtrs[resp.id].remarks) = 3
  /\ dtrs[resp.id].remarks[3] = "Fix timeOut"

----------------------------------------------------------------------------
(* POST /api/payrolls/generate over employees and DTRs already on file *)

\* the second employee is Active or Inactive
GenerateEmployees ==
  {<<SeedEmployees[1], Merge(SeedEmployees[2], [status |-> st])>> :
     st \in {"Active", "Inactive"}}

\* a DTR of each employee, in the first or the second half of June
GenerateSeedDtrs ==
  {<<StoredDtr(1, DtrBody(1, 610), s1), StoredDtr(2, DtrBody(2, date2), s2)>> :
     s1 \in {"Pending", "Approved"}, s2 \in {"Approved", "Rejected"},
     date2 \in {615, 620}}

\* the halves of June and the whole of it, the whole written to "2023-06-31",
\* which new Date reads as the 1st of July
GeneratePeriods == {<<601, 615>>, <<616, 630>>, <<601, 631>>}

InitGenerate ==
  /\ employees \in GenerateEmployees
  /\ dtrs \in GenerateSeedDtrs
  /\ payrolls = <<>>
  /\ activities = 0
  /\ resp = NoResponse
  /\ inflight = NoRequests
  /\ NothingElse
  /\ zone \in Zones

NextGenerate ==
  \/ ApproveRequests(One, DtrIds, {Anonymous}, NoCalls)
  \/ ActivateRequests(One, {2, MissingEmployee}, {Anonymous}, NoCalls)
  \/ DeactivateRequests(One, {2, MissingEmployee}, {Anonymous}, NoCalls)
  \/ HireRequests(One, EmployeeBodies, {"createUser"})
  \/ EmployeePatchRequests(One, {1, MissingEmployee}, EmployeePatchBodies,
                           {Anonymous}, NoCalls)
  \/ GenerateRequests(One, GeneratePeriods, Users,
                      {"getAllDTRs", "createPayroll", "createActivity"})

SpecGenerate == InitGenerate /\ [][NextGenerate]_vars

\* DTR d is an Approved DTR of employee e dated within [from, to]
ApprovedWithin(d, e, from, to) ==
  /\ d.employeeId = e
  /\ d.status = "Approved"
  /\ ToTime(from) <= ToTime(d.date)
  /\ ToTime(d.date) <= ToTime(to)

\* C23: POST /api/payrolls/generate changes no DTR: the Approved ones stay
\* Approved and every field of every DTR is as before, whether or not a
\* payroll was created.
C23_GenerateChangesNoDtr ==
  [][\A r \in Requests : Acts(r, {"generate"}) => dtrs' = dtrs]_vars

\* generate has created a payroll and the DTR it paid is still Approved
C23_Witness ==
  /\ resp.op = "generate" /\ resp.code = 200
  /\ \E k \in 1..Len(resp.payrolls) :
       LET p == payrolls[resp.payrolls[k]] IN
         \E i \in 1..Len(dtrs) :
           ApprovedWithin(dtrs[i], p.employeeId, p.periodStart, p.periodEnd)

\* C24: generate creates a payroll for an employee only if the employee is
\* Active and has an Approved DTR dated within [periodStart, periodEnd], both
\* ends included; no one else gets a payroll, and the response lists exactly
\* the payrolls this call created: the list is empty when the loop begins,
\* gains each payroll as it is created, and is what the response carries.
C24_GenerateOnlyForActiveWithApproved ==
  [][\A r \in Requests :
       Acts(r, {"generate"}) =>
         LET q == inflight[r] IN
           /\ SubSeq(payrolls', 1, Len(payrolls)) = payrolls
           /\ Len(payrolls') <= Len(payrolls) + 1
           /\ \A k \in (Len(payrolls) + 1)..Len(payrolls') :
                LET p == payrolls'[k] IN
                  /\ p.periodStart = q.periodStart
                  /\ p.periodEnd = q.periodEnd
                  /\ \E e \in 1..Len(employees) :
                       /\ employees[e].id = p.employeeId
                       /\ employees[e].status = "Active"
                  /\ \E i \in 1..Len(dtrs) :
                       ApprovedWithin(dtrs[i], p.employeeId, p.periodStart,
                                      p.periodEnd)
                  /\ inflight'[r].generated = Append(q.generated, k)
           /\ (q.pc = "getAllEmployees" /\ inflight'[r].pc # "idle")
                => inflight'[r].generated = <<>>
           /\ (q.pc \notin {"getAllEmployees", "createPayroll"}
                 /\ inflight'[r].pc # "idle")
                => inflight'[r].generated = q.generated
           /\ resp'.code = 200 =>
                resp'.payrolls =
                  IF q.pc = "getAllEmployees" THEN <<>> ELSE q.generated]_vars

\* generate has paid the Active employee alone, while the Inactive one had an
\* Approved DTR and the paid one a DTR on the last day of the period
C24_Witness ==
  /\ resp.op = "generate" /\ resp.code = 200
  /\ Len(resp.payrolls) = 1
  /\ employees[2].status = "Inactive"
  /\ dtrs[2].status = "Approved"
  /\ LET p == payrolls[resp.payrolls[1]] IN
       /\ p.employeeId = 1
       /\ DateLeq(dtrs[2].date, p.periodEnd)
       /\ DateGeq(dtrs[2].date, p.periodStart)

----------------------------------------------------------------------------
(* The frame of payroll process and mark-paid *)

\* C25: payroll process and mark-paid change only DTRs of the payroll's
\* employee dated within the payroll's period: every other DTR stays as it
\* was, and no other payroll record is modified.
C25_PayrollStepsFrame ==
  [][\A r \in Requests :
       (Acts(r, {"processPayroll", "markPaid"})
          /\ Exists(payrolls, inflight[r].id)) =>
         /\ Len(dtrs') = Len(dtrs)
         /\ \A i \in 1..Len(dtrs) :
              ~InPeriodOf(dtrs[i], payrolls[inflight[r].id])
                => dtrs'[i] = dtrs[i]
         /\ Len(payrolls') = Len(payrolls)
         /\ \A k \in 1..Len(payrolls) :
              k # inflight[r].id => payrolls'[k] = payrolls[k]]_vars

\* mark-paid of one of two payrolls has paid a DTR while a DTR of another
\* employee, or dated outside the period, is not Paid
C25_Witness ==
  /\ resp.op = "markPaid" /\ resp.code = 200
  /\ Len(payrolls) = 2
  /\ payrolls[3 - resp.id].status # "Paid"
  /\ \E i, j \in 1..Len(dtrs) :
       /\ InPeriodOf(dtrs[i], payrolls[resp.id]) /\ dtrs[i].status = "Paid"
       /\ ~InPeriodOf(dtrs[j], payrolls[resp.id]) /\ dtrs[j].status # "Paid"

----------------------------------------------------------------------------
(* The status of a payroll *)

\* the place of a status on the way Pending -> Processed -> Paid
PayrollRank(status) ==
  CASE status = "Pending" -> 0
    [] status = "Processed" -> 1
    [] status = "Paid" -> 2

\* C26: the status of a payroll only moves forward along
\* Pending -> Processed -> Paid; a Paid payroll is never returned to
\* Processed or Pending by a process or mark-paid request.
C26_PayrollStatusForward ==
  [][\A k \in 1..Len(payrolls) :
       PayrollRank(payrolls'[k].status) >= PayrollRank(payrolls[k].status)]_vars

----------------------------------------------------------------------------
(* Payrolls made from one DTR *)

\* bulk process-payroll alone, one request after the other, over two Approved
\* DTRs of an employee on file; no call of the store rejects unless the
\* store refuses what it is given
NextResubmit == BulkProcessRequests(One, IdLists(MaxBulk), Users, NoCalls)

SpecResubmit == InitLogged /\ [][NextResubmit]_vars

\* the entry of errors for a DTR that is not Approved
NotApproved(id) == [id |-> id, message |-> BulkMessage("bulkProcess")]

\* C27: bulk process-payroll makes at most one payroll from a DTR: there are
\* never more payrolls than DTRs, and a DTR whose id is listed a second time
\* is refused there, no longer being Approved.
C27_OnePayrollPerDtr ==
  /\ Len(payrolls) <= Len(dtrs)
  /\ (resp.op = "bulkProcess" /\ resp.code = 200) =>
       \A i, j \in 1..resp.total :
         (/\ i < j
          /\ resp.dtrIds[i] = resp.dtrIds[j]
          /\ Exists(dtrs, resp.dtrIds[j]))
           => \E n \in 1..Len(resp.errors) :
                resp.errors[n] = NotApproved(resp.dtrIds[j])

----------------------------------------------------------------------------
(* Per-DTR processing of a DTR whose employee is not on file *)

\* C28: POST /api/payroll/process/:dtrId for a DTR whose employee does not
\* exist answers 404, creates no payroll and leaves the DTR's status as it
\* was when the request read the DTR.
C28_MissingEmployeeLeavesDtr ==
  [][\A r \in Requests :
       (/\ ActsAt(r, {"processDtr"}, "getEmployee")
        /\ ~Exists(employees, inflight[r].dtr.employeeId)) =>
         /\ resp'.code = 404
         /\ payrolls' = payrolls
         /\ dtrs'[inflight[r].id].status = inflight[r].dtr.status]_vars

----------------------------------------------------------------------------
(* Paid and Processed DTRs and the payrolls that cover them *)

\* DTR d is covered by a payroll of its employee whose period holds its date
\* and whose status is one of statuses
Covered(d, statuses) ==
  \E k \in 1..Len(payrolls) :
    InPeriodOf(d, payrolls[k]) /\ payrolls[k].status \in statuses

\* C29: without the generic PATCH /api/dtrs/:id, every Paid DTR is covered by
\* a Paid payroll of its employee whose period holds its date, and every
\* Processed DTR by such a payroll that is Processed or Paid.
C29_PaidDtrsAreCovered ==
  \A i \in 1..Len(dtrs) :
    /\ dtrs[i].status = "Paid" => Covered(dtrs[i], {"Paid"})
    /\ dtrs[i].status = "Processed" => Covered(dtrs[i], {"Processed", "Paid"})

----------------------------------------------------------------------------
(* DTRs paid without approval *)

\* C30: a DTR that is Pending or Rejected when a payroll covering its date is
\* marked Paid is not moved to Paid.
C30_PaidOnlyAfterApproval ==
  [][\A r \in Requests :
       Acts(r, {"markPaid"}) =>
         \A i \in 1..Len(dtrs) :
           dtrs[i].status \in {"Pending", "Rejected"}
             => dtrs'[i].status # "Paid"]_vars

====
